---- MODULE Spec2Model ----
(***************************************************************************)
(* A model of the feature pipeline of mystock:                            *)
(*   - TechnicalIndicators (src/src/features/technical.py), the indicator *)
(*     engine: calculate_all_indicators and the indicators it calls;      *)
(*   - DataProcessor (src/src/preprocessing/processor.py): cleaning,      *)
(*     feature selection, windowing, scaling, labels, the scaler file;    *)
(*   - StockDataFetcher.get_daily_data                                    *)
(*     (src/src/data_acquisition/stock_data.py): the provider fallback;   *)
(*   - the web API (src/src/api/app.py): the stock detail request and     *)
(*     the watchlist requests.                                            *)
(* Tables are sequences of rows; a cell of a computed table is a float,   *)
(* modelled as an exact rational or one of NaN, +inf, -inf with the IEEE  *)
(* rules for division by zero that the indicators rely on.                *)
(***************************************************************************)
EXTENDS Integers, Sequences, FiniteSets, TLC

VARIABLES
    df,               \* the caller's table handed to calculate_all_indicators
    cfg,              \* self.params of the last call (config.yaml: features.technical)
    work,             \* the local df after the indicators, before the final sort
    out,              \* what the last call of calculate_all_indicators gave back
    data,             \* create_sequences: the feature matrix (one entry per row)
    target,           \* create_sequences: the target vector
    sequence_length,  \* DataProcessor.sequence_length
    seq,              \* what the last call of create_sequences gave back
    tbl,              \* the caller's table handed to a table method of DataProcessor
    ret,              \* what the last table method of DataProcessor gave back
    scaler,           \* DataProcessor.scaler: the fitted state of the MinMaxScaler
    disk,             \* the scaler files on disk, by location
    stock_code,       \* get_daily_data: the code asked for
    position,         \* get_daily_data: the position of the call
    calls,            \* get_daily_data: the provider calls made so far
    fetched,          \* get_daily_data: the local df, at the end what it gave back
    response,         \* what the last request of GET /api/stock/<code> answered
    watchlist,        \* the content of configs/watchlist.json
    now,              \* datetime.now(), as a count of the saves so far
    req,              \* the watchlist requests in flight, by request
    handled           \* the watchlist requests answered so far, in order

vars == <<df, cfg, work, out, data, target, sequence_length, seq, tbl, ret, scaler,
          disk, stock_code, position, calls, fetched, response, watchlist, now, req,
          handled>>

engineVars == <<df, cfg, work, out>>
procVars == <<data, target, sequence_length, seq>>
tableVars == <<tbl, ret, scaler>>
fetchVars == <<stock_code, position, calls, fetched>>
apiVars == <<response, watchlist, now, req, handled>>
restVars == <<disk, fetchVars, apiVars>>

----------------------------------------------------------------------------
(* Bounds of the model *)

MaxRows == 3
MaxBadRows == 1
MaxClose == 3
MaxVol == 2
MaxPeriod == 2
MaxT == 3
MaxL == 3
MaxFeat == 1

----------------------------------------------------------------------------
(* Float cells: exact rationals n/d (d > 0), NaN, +inf and -inf *)

Num(x) == [t |-> "num", n |-> x, d |-> 1]
NaN == [t |-> "nan", n |-> 0, d |-> 1]
PInf == [t |-> "inf", n |-> 1, d |-> 1]
NInf == [t |-> "inf", n |-> -1, d |-> 1]

IsNum(v) == v.t = "num"
IsNaN(v) == v.t = "nan"
IsInf(v) == v.t = "inf"

Sign(x) == IF x > 0 THEN 1 ELSE IF x < 0 THEN -1 ELSE 0

\* the sign of a cell that is not NaN
VSign(v) == Sign(v.n)

Inf(s) == IF s > 0 THEN PInf ELSE NInf

FNeg(a) == IF IsNaN(a) THEN NaN ELSE [a EXCEPT !.n = -a.n]

FAdd(a, b) ==
    IF IsNaN(a) \/ IsNaN(b) THEN NaN
    ELSE IF IsInf(a) /\ IsInf(b) THEN (IF a.n = b.n THEN a ELSE NaN)
    ELSE IF IsInf(a) THEN a
    ELSE IF IsInf(b) THEN b
    ELSE [t |-> "num", n |-> a.n * b.d + b.n * a.d, d |-> a.d * b.d]

FSub(a, b) == FAdd(a, FNeg(b))

FMul(a, b) ==
    IF IsNaN(a) \/ IsNaN(b) THEN NaN
    ELSE IF IsInf(a) \/ IsInf(b)
         THEN (IF VSign(a) * VSign(b) = 0 THEN NaN ELSE Inf(VSign(a) * VSign(b)))
    ELSE [t |-> "num", n |-> a.n * b.n, d |-> a.d * b.d]

\* IEEE division: x/0 is an infinity, 0/0 and inf/inf are NaN, x/inf is 0
FDiv(a, b) ==
    IF IsNaN(a) \/ IsNaN(b) THEN NaN
    ELSE IF IsInf(a) THEN (IF IsInf(b) THEN NaN
                           ELSE Inf(VSign(a) * (IF b.n < 0 THEN -1 ELSE 1)))
    ELSE IF IsInf(b) THEN Num(0)
    ELSE IF b.n = 0 THEN (IF a.n = 0 THEN NaN ELSE Inf(Sign(a.n)))
    ELSE [t |-> "num", n |-> a.n * b.d * Sign(b.n), d |-> a.d * b.n * Sign(b.n)]

\* comparisons of floats: every comparison with NaN is false
FLt(a, b) ==
    /\ ~IsNaN(a) /\ ~IsNaN(b)
    /\ IF IsInf(a) THEN a.n < 0 /\ ~(IsInf(b) /\ b.n < 0)
       ELSE IF IsInf(b) THEN b.n > 0
       ELSE a.n * b.d < b.n * a.d

FGt(a, b) == FLt(b, a)

FEq(a, b) ==
    /\ ~IsNaN(a) /\ ~IsNaN(b)
    /\ IF IsInf(a) \/ IsInf(b) THEN a = b
       ELSE a.n * b.d = b.n * a.d

FLe(a, b) == FLt(a, b) \/ FEq(a, b)

----------------------------------------------------------------------------
(* Tables (DataFrames): an ordered list of column names, the number of     *)
(* rows, and one series of float cells per column                          *)

Range(s) == {s[i] : i \in 1..Len(s)}

\* a series given by its entries, as an explicit sequence
Series(f) == f \o <<>>

HasCol(tab, c) == c \in Range(tab.columns)

\* df[c] as a series
Col(tab, c) == tab.data[c]

\* row i of the table (df.iloc[i - 1])
Row(tab, i) == [c \in Range(tab.columns) |-> tab.data[c][i]]

\* df[c] = values, for a series of the table's length: a new column is
\* appended to the columns, an existing one is overwritten in place
SetCol(tab, c, values) ==
    [columns |-> IF HasCol(tab, c) THEN tab.columns ELSE Append(tab.columns, c),
     len |-> tab.len,
     data |-> (c :> values) @@ tab.data]

\* df.rename(columns=mapping), for a mapping that keeps the names distinct
Rename(tab, mapping) ==
    LET new(c) == IF c \in DOMAIN mapping THEN mapping[c] ELSE c
        old(c) == CHOOSE o \in Range(tab.columns) : new(o) = c
        names == [i \in 1..Len(tab.columns) |-> new(tab.columns[i])]
    IN [columns |-> names,
        len |-> tab.len,
        data |-> [c \in Range(names) |-> tab.data[old(c)]]]

\* the sort key order of sort_values: NaN keys go last in either direction
KeyBefore(a, b, ascending) ==
    IF IsNaN(a) THEN FALSE
    ELSE IF IsNaN(b) THEN TRUE
    ELSE IF ascending THEN FLt(a, b) ELSE FGt(a, b)

\* insert row index r into a sorted list of row indices
RECURSIVE InsertIndex(_, _, _, _)
InsertIndex(order, r, keys, ascending) ==
    IF order = <<>> THEN <<r>>
    ELSE IF KeyBefore(keys[r], keys[Head(order)], ascending)
         THEN <<r>> \o order
         ELSE <<Head(order)>> \o InsertIndex(Tail(order), r, keys, ascending)

\* the row indices in sorted order of their keys
RECURSIVE SortOrder(_, _, _)
SortOrder(keys, n, ascending) ==
    IF n = 0 THEN <<>>
    ELSE InsertIndex(SortOrder(keys, n - 1, ascending), n, keys, ascending)

\* df.sort_values(by, ascending=...).reset_index(drop=True); the keys of a
\* price series are distinct, so the sorted order is unique
SortValues(tab, by, ascending) ==
    LET order == SortOrder(tab.data[by], tab.len, ascending)
    IN [columns |-> tab.columns,
        len |-> tab.len,
        data |-> [c \in Range(tab.columns) |->
                    Series([i \in 1..tab.len |-> tab.data[c][order[i]]])]]

----------------------------------------------------------------------------
(* Series operations of pandas used by the indicators *)

\* series.rolling(window).mean(): the sliding sum of pandas' roll_mean, which
\* adds the entering observation and removes the one leaving the window,
\* skips NaN, and yields a value once min_periods = window observations exist
RECURSIVE RollStates(_, _, _)
RollStates(xs, window, i) ==
    IF i = 0 THEN <<>>
    ELSE LET before == RollStates(xs, window, i - 1)
             p == IF i = 1 THEN [sum |-> Num(0), nobs |-> 0] ELSE before[i - 1]
             a == IF IsNaN(xs[i]) THEN p
                  ELSE [sum |-> FAdd(p.sum, xs[i]), nobs |-> p.nobs + 1]
         IN Append(before,
                   IF i > window /\ ~IsNaN(xs[i - window])
                   THEN [sum |-> FSub(a.sum, xs[i - window]), nobs |-> a.nobs - 1]
                   ELSE a)

\* a rolling mean with min_periods = 1: partial windows give a value
RollingMeanMinPeriodsOne(xs, window) ==
    LET states == RollStates(xs, window, Len(xs))
    IN Series([i \in 1..Len(xs) |->
                 IF states[i].nobs > 0
                 THEN FDiv(states[i].sum, Num(states[i].nobs)) ELSE NaN])

RollingMean(xs, window) ==
    LET states == RollStates(xs, window, Len(xs))
    IN Series([i \in 1..Len(xs) |->
                 IF states[i].nobs >= window /\ states[i].nobs > 0
                 THEN FDiv(states[i].sum, Num(states[i].nobs)) ELSE NaN])

\* series.ewm(span=span, adjust=False).mean(): y0 = x0,
\* y[i] = (1 - alpha) * y[i-1] + alpha * x[i] with alpha = 2 / (span + 1)
RECURSIVE EwmUpTo(_, _, _)
EwmUpTo(xs, span, i) ==
    IF i = 0 THEN <<>>
    ELSE IF i = 1 THEN <<xs[1]>>
    ELSE LET alpha == [t |-> "num", n |-> 2, d |-> span + 1]
             before == EwmUpTo(xs, span, i - 1)
             prev == before[i - 1]
         IN Append(before,
                   IF IsNaN(xs[i]) THEN prev
                   ELSE IF IsNaN(prev) THEN xs[i]
                   ELSE FAdd(FMul(FSub(Num(1), alpha), prev), FMul(alpha, xs[i])))

EwmMean(xs, span) == EwmUpTo(xs, span, Len(xs))

\* series.shift(periods) for periods >= 0
Shift(xs, periods) ==
    Series([i \in 1..Len(xs) |-> IF i - periods >= 1 THEN xs[i - periods] ELSE NaN])

\* series.diff()
Diff(xs) ==
    LET prev == Shift(xs, 1)
    IN Series([i \in 1..Len(xs) |-> FSub(xs[i], prev[i])])

\* series.pct_change(periods)
PctChange(xs, periods) ==
    LET prev == Shift(xs, periods)
    IN Series([i \in 1..Len(xs) |-> FSub(FDiv(xs[i], prev[i]), Num(1))])

----------------------------------------------------------------------------
(* TechnicalIndicators: the indicators.  Each takes the working table and   *)
(* the configured periods and returns the table with its columns added.     *)

MaName(period) == "ma_" \o ToString(period)
EmaName(period) == "ema_" \o ToString(period)
VolMaName(period) == "vol_ma_" \o ToString(period)

\* for period in periods: df[f'ma_{period}'] = df['close'].rolling(period).mean()
RECURSIVE calculate_ma(_, _)
calculate_ma(tab, periods) ==
    IF periods = <<>> THEN tab
    ELSE calculate_ma(SetCol(tab, MaName(Head(periods)),
                             RollingMean(Col(tab, "close"), Head(periods))),
                      Tail(periods))

\* for period in periods: df[f'ema_{period}'] = df['close'].ewm(span=period).mean()
RECURSIVE calculate_ema(_, _)
calculate_ema(tab, periods) ==
    IF periods = <<>> THEN tab
    ELSE calculate_ema(SetCol(tab, EmaName(Head(periods)),
                              EwmMean(Col(tab, "close"), Head(periods))),
                       Tail(periods))

\* losses kept with their negative sign
LossOfNotNegated(delta) == Series([i \in 1..Len(delta) |->
                                     IF FLt(delta[i], Num(0)) THEN delta[i] ELSE Num(0)])

\* delta.where(delta > 0, 0): NaN > 0 is false, so the first delta becomes 0
GainOf(delta) == Series([i \in 1..Len(delta) |->
                            IF FGt(delta[i], Num(0)) THEN delta[i] ELSE Num(0)])

\* -delta.where(delta < 0, 0)
LossOf(delta) == Series([i \in 1..Len(delta) |->
                            IF FLt(delta[i], Num(0)) THEN FNeg(delta[i]) ELSE Num(0)])

\* rs = gain / loss and rsi = 100 - (100 / (1 + rs)), in float arithmetic
RsiOf(gain, loss) ==
    FSub(Num(100), FDiv(Num(100), FAdd(Num(1), FDiv(gain, loss))))

calculate_rsi(tab, period) ==
    LET delta == Diff(Col(tab, "close"))
        gain == RollingMean(GainOf(delta), period)
        loss == RollingMean(LossOf(delta), period)
    IN SetCol(tab, "rsi", Series([i \in 1..tab.len |-> RsiOf(gain[i], loss[i])]))

\* an OBV loop that takes the volume of the previous row
RECURSIVE ObvListPreviousVolume(_, _, _)
ObvListPreviousVolume(close, volume, n) ==
    IF n <= 1 THEN <<Num(0)>>
    ELSE LET obv == ObvListPreviousVolume(close, volume, n - 1)
             last == obv[Len(obv)]
         IN IF FGt(close[n], close[n - 1]) THEN Append(obv, FAdd(last, volume[n - 1]))
            ELSE IF FLt(close[n], close[n - 1]) THEN Append(obv, FSub(last, volume[n - 1]))
            ELSE Append(obv, last)

\* an OBV loop with the two directions exchanged
RECURSIVE ObvListSignFlipped(_, _, _)
ObvListSignFlipped(close, volume, n) ==
    IF n <= 1 THEN <<Num(0)>>
    ELSE LET obv == ObvListSignFlipped(close, volume, n - 1)
             last == obv[Len(obv)]
         IN IF FGt(close[n], close[n - 1]) THEN Append(obv, FSub(last, volume[n]))
            ELSE IF FLt(close[n], close[n - 1]) THEN Append(obv, FAdd(last, volume[n]))
            ELSE Append(obv, last)

\* the loop of calculate_obv: obv = [0], then one entry per later row
RECURSIVE ObvList(_, _, _)
ObvList(close, volume, n) ==
    IF n <= 1 THEN <<Num(0)>>
    ELSE LET obv == ObvList(close, volume, n - 1)
             last == obv[Len(obv)]
         IN IF FGt(close[n], close[n - 1]) THEN Append(obv, FAdd(last, volume[n]))
            ELSE IF FLt(close[n], close[n - 1]) THEN Append(obv, FSub(last, volume[n]))
            ELSE Append(obv, last)

\* df['obv'] = obv.  The list has max(1, len(df)) entries: on a table without
\* rows pandas takes the index from the one-entry list, so the table gets
\* one row whose other cells are NaN
calculate_obv(tab) ==
    LET obv == ObvList(Col(tab, "close"), Col(tab, "volume"), tab.len)
    IN IF tab.len = 0
       THEN SetCol([columns |-> tab.columns,
                    len |-> 1,
                    data |-> [c \in Range(tab.columns) |-> <<NaN>>]], "obv", obv)
       ELSE SetCol(tab, "obv", obv)

\* periods = [5, 10, 20]
VolMaPeriods == <<5, 10, 20>>

RECURSIVE calculate_volume_ma(_, _)
calculate_volume_ma(tab, periods) ==
    IF periods = <<>> THEN tab
    ELSE calculate_volume_ma(SetCol(tab, VolMaName(Head(periods)),
                                    RollingMean(Col(tab, "volume"), Head(periods))),
                             Tail(periods))

\* df['pct_change'] = df['close'].pct_change() * 100 (the daily change)
calculate_price_change(tab) ==
    LET pc == PctChange(Col(tab, "close"), 1)
    IN SetCol(tab, "pct_change", Series([i \in 1..tab.len |-> FMul(pc[i], Num(100))]))

----------------------------------------------------------------------------
(* TechnicalIndicators.calculate_all_indicators *)

column_mapping == ("trade_date" :> "date") @@ ("vol" :> "volume")

required_cols == <<"close", "high", "low", "volume">>

\* the indicator calls of the try block, in the order of the code
AllIndicators(tab, params) ==
    LET t1 == calculate_ma(tab, params.ma_periods)
        t2 == calculate_ema(t1, params.ema_periods)
        t3 == calculate_rsi(t2, params.rsi_period)
        t4 == calculate_obv(t3)
        t5 == calculate_volume_ma(t4, VolMaPeriods)
    IN calculate_price_change(t5)

NoWork == [status |-> "none"]
NoResult == [status |-> "none"]

\* MinMaxScaler(feature_range=(0, 1)) before any fit
Unfitted == [fitted |-> FALSE]

\* the locations a caller hands to save_scaler and load_scaler: a file in a
\* directory, and a bare file name (os.path.dirname gives '')
Locations ==
    {[dir |-> "models", name |-> "scaler.pkl"], [dir |-> "", name |-> "scaler.pkl"]}

\* no file at a location
NoFile == [status |-> "absent"]

EmptyDisk == [p \in Locations |-> NoFile]

\* what no specification of the engine or of the table methods touches
IdleFetch == stock_code = "" /\ position = "idle" /\ calls = <<>> /\ fetched = NoResult

IdleApi ==
    /\ response = NoResult /\ watchlist = NoFile /\ now = 0
    /\ req = <<>> /\ handled = <<>>

IdleRest == disk = EmptyDisk /\ IdleFetch /\ IdleApi

\* an engine that computes in the order of the input rows
SortOnEntrySkipped(tab) == tab

\* the ascending sort on entry and the descending sort on exit
SortOnEntry(tab) ==
    IF HasCol(tab, "date") THEN SortValues(tab, "date", TRUE) ELSE tab

SortOnExit(tab) ==
    IF HasCol(tab, "date") THEN SortValues(tab, "date", FALSE) ELSE tab

\* a validation that stops at the first missing column
MissingColsFirstOnly(tab) ==
    LET all == SelectSeq(required_cols, LAMBDA c : ~HasCol(tab, c))
    IN IF all = <<>> THEN <<>> ELSE <<Head(all)>>

\* missing_cols = [col for col in required_cols if col not in df.columns]
MissingCols(tab) == SelectSeq(required_cols, LAMBDA c : ~HasCol(tab, c))

\* an engine that renames the columns of the table it was handed
\* (no copy, rename(..., inplace=True))
OwnFrameInPlace(input) ==
    [table |-> Rename(input, column_mapping), shared |-> TRUE]

\* the local df after df.copy() and df.rename(columns=column_mapping):
\* both give a new object, so the local table is not the caller's
\* object (shared = FALSE)
OwnFrame(input) ==
    [table |-> Rename(input, column_mapping), shared |-> FALSE]

\* the call on a table: what it returns or raises (out), the local
\* table the indicators were computed on (work), and the caller's table
\* after the call (caller).  sort_values returns a new object; the
\* indicator methods assign their columns into the object they are handed
calculate_all_indicators(input, params) ==
    LET own == OwnFrame(input)
        renamed == own.table
        handed == IF own.shared THEN renamed ELSE input
        missing_cols == MissingCols(renamed)
    IN IF missing_cols # <<>>
       THEN [work |-> NoWork,
             out |-> [status |-> "ValueError", missing |-> missing_cols,
                      columns |-> renamed.columns],
             caller |-> handed]
       ELSE LET computed == AllIndicators(SortOnEntry(renamed), params)
            IN [work |-> [status |-> "computed", table |-> computed],
                out |-> [status |-> "ok", table |-> SortOnExit(computed)],
                caller |-> IF own.shared /\ ~HasCol(renamed, "date")
                           THEN computed ELSE handed]

----------------------------------------------------------------------------
(* The tables and configurations the engine is run on *)

AllNames == <<"trade_date", "date", "open", "high", "low", "close", "vol", "volume">>
DateNames == {"trade_date", "date"}
VolNames == {"vol", "volume"}

\* the two naming conventions a caller's table comes in: the fetchers' names
\* (trade_date, vol) and the engine's own (date, volume)
Conventions == {{"trade_date", "vol"}, {"date", "volume"}}

\* column sets: open, any of high, low, close, and any of the date and the
\* volume column under one naming convention
ColumnSets ==
    {S \in SUBSET Range(AllNames) :
        /\ "open" \in S
        /\ \E conv \in Conventions : S \cap (DateNames \cup VolNames) \subseteq conv}

Complete(S) == {"close", "high", "low"} \subseteq S /\ S \cap VolNames # {}

DateOrders(n) == {f \in [1..n -> 1..n] : \A i, j \in 1..n : f[i] = f[j] => i = j}

\* a price table: one row per date, low = open = close < high
PriceTable(S, dates, closes, vols) ==
    [columns |-> SelectSeq(AllNames, LAMBDA c : c \in S),
     len |-> Len(dates),
     data |-> [c \in S |->
                 Series([i \in 1..Len(dates) |->
                           IF c \in DateNames THEN Num(dates[i])
                           ELSE IF c \in VolNames THEN Num(vols[i])
                           ELSE IF c = "high" THEN Num(closes[i] + 1)
                           ELSE Num(closes[i])])]]

AllPeriods == [i \in 1..MaxPeriod |-> i]

\* config.yaml, features.technical: every period up to the bound is configured
Configs == {[ma_periods |-> AllPeriods, ema_periods |-> <<MaxPeriod>>,
             rsi_period |-> MaxPeriod]}

NoConfig == [ma_periods |-> <<>>, ema_periods |-> <<>>, rsi_period |-> 1]
NoTable == [columns |-> <<>>, len |-> 0, data |-> <<>>]

\* the volume of the record of a date, for the tables whose row order varies
VolumeByDate(dates) == [i \in 1..Len(dates) |-> 1 + (dates[i] % MaxVol)]

\* the dates of a table delivered latest first, as the fetchers deliver it
LatestFirst(n) == [i \in 1..n |-> n + 1 - i]

\* the columns of a fetched table
FetchedColumns == {"trade_date", "open", "high", "low", "close", "vol"}

\* the engine on tables of any column set and any row order
InitEngine ==
    /\ \E S \in ColumnSets, n \in 0..MaxRows :
          /\ Complete(S) \/ n <= MaxBadRows
          /\ \E dates \in DateOrders(n), closes \in [1..n -> 1..MaxClose] :
                df = PriceTable(S, dates, closes, VolumeByDate(dates))
    /\ cfg \in Configs
    /\ work = NoWork
    /\ out = NoResult
    /\ data = <<>> /\ target = <<>> /\ sequence_length = 0 /\ seq = NoResult
    /\ tbl = NoTable /\ ret = NoResult /\ scaler = Unfitted
    /\ IdleRest

\* the engine on fetched tables (latest first) of any closes and volumes
InitSeries ==
    /\ \E n \in 0..MaxRows :
          \E closes \in [1..n -> 1..MaxClose], vols \in [1..n -> 1..MaxVol] :
              df = PriceTable(FetchedColumns, LatestFirst(n), closes, vols)
    /\ cfg \in Configs
    /\ work = NoWork
    /\ out = NoResult
    /\ data = <<>> /\ target = <<>> /\ sequence_length = 0 /\ seq = NoResult
    /\ tbl = NoTable /\ ret = NoResult /\ scaler = Unfitted
    /\ IdleRest

\* a call of calculate_all_indicators(df) on the engine
CalculateAllIndicators ==
    /\ out = NoResult
    /\ \E r \in {calculate_all_indicators(df, cfg)} :
          work' = r.work /\ out' = r.out /\ df' = r.caller
    /\ UNCHANGED <<cfg, procVars, tableVars, restVars>>

NextEngine == CalculateAllIndicators

SpecEngine == InitEngine /\ [][NextEngine]_vars

NextSeries == CalculateAllIndicators

SpecSeries == InitSeries /\ [][NextSeries]_vars

----------------------------------------------------------------------------
(* DataProcessor.create_sequences *)

\* data[start:stop] for 0 <= start (0-based, the stop is clamped to len)
PySlice(s, start, stop) ==
    SubSeq(s, start + 1, IF stop < Len(s) THEN stop ELSE Len(s))

\* a loop that runs one iteration too many
WindowCountOneMore(T, L) == IF T - L + 1 > 0 THEN T - L + 1 ELSE 0

\* the number of iterations of range(len(data) - sequence_length)
WindowCount(T, L) == IF T - L > 0 THEN T - L ELSE 0

\* a loop that pairs a window with the target of its own last row
RECURSIVE SequenceLoopLabelInWindow(_, _, _, _)
SequenceLoopLabelInWindow(d, t, L, count) ==
    IF count = 0 THEN [status |-> "ok", X |-> <<>>, y |-> <<>>]
    ELSE LET before == SequenceLoopLabelInWindow(d, t, L, count - 1)
             i == count - 1
         IN IF before.status # "ok" THEN before
            ELSE [status |-> "ok",
                  X |-> Append(before.X, PySlice(d, i, i + L)),
                  y |-> Append(before.y, IF i + L = 0 THEN t[Len(t)] ELSE t[i + L])]

\* the loop body for i = 0 .. count - 1; target[k] raises IndexError when k
\* is outside the vector
RECURSIVE SequenceLoop(_, _, _, _)
SequenceLoop(d, t, L, count) ==
    IF count = 0 THEN [status |-> "ok", X |-> <<>>, y |-> <<>>]
    ELSE LET before == SequenceLoop(d, t, L, count - 1)
             i == count - 1
         IN IF before.status # "ok" THEN before
            ELSE IF i + L >= Len(t)
                 THEN [status |-> "IndexError", X |-> <<>>, y |-> <<>>]
            ELSE [status |-> "ok",
                  X |-> Append(before.X, PySlice(d, i, i + L)),
                  y |-> Append(before.y, t[i + L + 1])]

create_sequences(d, t, L) == SequenceLoop(d, t, L, WindowCount(Len(d), L))

InitProc ==
    /\ \E T \in 0..MaxT :
          /\ data \in [1..T -> 0..MaxFeat]
          /\ target \in [1..T -> 0..MaxFeat]
    /\ sequence_length \in 0..MaxL
    /\ seq = NoResult
    /\ df = NoTable /\ cfg = NoConfig /\ work = NoWork /\ out = NoResult
    /\ tbl = NoTable /\ ret = NoResult /\ scaler = Unfitted
    /\ IdleRest

\* a call of create_sequences(data, target) on the processor
CreateSequences ==
    /\ seq = NoResult
    /\ seq' = create_sequences(data, target, sequence_length)
    /\ UNCHANGED <<data, target, sequence_length, engineVars, tableVars, restVars>>

NextProc == CreateSequences

SpecProc == InitProc /\ [][NextProc]_vars

----------------------------------------------------------------------------
(* DataProcessor: the methods that take a table.  Each is modelled by the  *)
(* caller's table after the call (arg) and what the call gives back (ret)  *)

MaxDays == 2

\* series.shift(-periods), for periods >= 0
ShiftBack(xs, periods) ==
    Series([i \in 1..Len(xs) |-> IF i + periods <= Len(xs) THEN xs[i + periods] ELSE NaN])

\* f'future_return_{days}d'
FutureReturnName(days) == "future_return_" \o ToString(days) \o "d"

\* df['close'].shift(-days) / df['close'] - 1
FutureReturn(close, days) ==
    LET later == ShiftBack(close, days)
    IN Series([i \in 1..Len(close) |-> FSub(FDiv(later[i], close[i]), Num(1))])

\* a label that is 1 from the threshold on
LabelOfAtLeast(returns, threshold) ==
    Series([i \in 1..Len(returns) |-> IF FLe(threshold, returns[i]) THEN Num(1) ELSE Num(0)])

\* (df[future_return] > threshold).astype(int)
LabelOf(returns, threshold) ==
    Series([i \in 1..Len(returns) |-> IF FGt(returns[i], threshold) THEN Num(1) ELSE Num(0)])

\* the rows (1-based positions) of a table, in order
RowIndex(tab) == Series([i \in 1..tab.len |-> i])

\* the rows of a table picked by their positions
TakeRows(tab, rows) ==
    [columns |-> tab.columns,
     len |-> Len(rows),
     data |-> [c \in Range(tab.columns) |->
                 Series([k \in 1..Len(rows) |-> tab.data[c][rows[k]]])]]

\* a dropna that keeps every row
DropNaKeepsAll(tab, c) == RowIndex(tab)

\* df.dropna(subset=[c]): the positions of the rows it keeps
DropNa(tab, c) == SelectSeq(RowIndex(tab), LAMBDA i : ~IsNaN(tab.data[c][i]))

\* df.copy(): a new object with the same cells, not shared with the caller
CopyOf(tab) == [table |-> tab, shared |-> FALSE]

\* generate_labels(df, days, threshold) for days >= 0: index holds the
\* positions in the input of the rows of the returned table
generate_labels(input, days, threshold) ==
    IF ~HasCol(input, "close")
    THEN [arg |-> input, ret |-> [status |-> "KeyError", op |-> "generate_labels"]]
    ELSE LET own == CopyOf(input)
             name == FutureReturnName(days)
             returns == FutureReturn(own.table.data["close"], days)
             labelled == SetCol(SetCol(own.table, name, returns),
                                "label", LabelOf(returns, threshold))
             kept == DropNa(labelled, name)
         IN [arg |-> IF own.shared THEN labelled ELSE input,
             ret |-> [status |-> "ok", op |-> "generate_labels",
                      days |-> days, threshold |-> threshold,
                      table |-> TakeRows(labelled, kept), index |-> kept]]

\* the thresholds of the calls: 0, 0.05 (the default) and 0.5
Thresholds == {Num(0), [t |-> "num", n |-> 1, d |-> 20], [t |-> "num", n |-> 1, d |-> 2]}

\* the closes of the example of the specification
ExampleCloses == <<100, 102, 108, 103, 95>>

\* a table of dates (oldest first) and closes
CloseTable(closes) ==
    [columns |-> <<"trade_date", "close">>,
     len |-> Len(closes),
     data |-> [c \in {"trade_date", "close"} |->
                 Series([i \in 1..Len(closes) |->
                           IF c = "trade_date" THEN Num(i) ELSE Num(closes[i])])]]

IdleEngine ==
    /\ df = NoTable /\ cfg = NoConfig /\ work = NoWork /\ out = NoResult
    /\ data = <<>> /\ target = <<>> /\ sequence_length = 0 /\ seq = NoResult

\* generate_labels on tables of any closes (zero included), oldest first
InitLabels ==
    /\ \/ \E n \in 0..MaxRows : \E closes \in [1..n -> 0..MaxClose] :
             tbl = CloseTable(closes)
       \/ tbl = CloseTable(ExampleCloses)
    /\ ret = NoResult
    /\ scaler = Unfitted
    /\ IdleRest
    /\ IdleEngine

\* a call of generate_labels(tbl, days, threshold) on the processor
GenerateLabels ==
    /\ ret = NoResult
    /\ \E days \in 0..MaxDays, threshold \in Thresholds :
          \E r \in {generate_labels(tbl, days, threshold)} :
             tbl' = r.arg /\ ret' = r.ret
    /\ UNCHANGED <<scaler, engineVars, procVars, restVars>>

NextLabels == GenerateLabels

SpecLabels == InitLabels /\ [][NextLabels]_vars

\* a replace that leaves the infinities in place
ReplaceInfKept(xs) == xs

\* series.replace([np.inf, -np.inf], np.nan)
ReplaceInf(xs) ==
    Series([i \in 1..Len(xs) |-> IF IsInf(xs[i]) THEN NaN ELSE xs[i]])

\* series.ffill(): the first k cells, each NaN taking the filled cell above
RECURSIVE FfillUpTo(_, _)
FfillUpTo(xs, k) ==
    IF k = 0 THEN <<>>
    ELSE LET above == FfillUpTo(xs, k - 1)
         IN Append(above, IF IsNaN(xs[k]) /\ k > 1 THEN above[k - 1] ELSE xs[k])

Ffill(xs) == FfillUpTo(xs, Len(xs))

Reverse(xs) == Series([i \in 1..Len(xs) |-> xs[Len(xs) + 1 - i]])

\* series.bfill(): each NaN takes the filled cell below
Bfill(xs) == Reverse(Ffill(Reverse(xs)))

\* series.fillna(0)
FillZero(xs) ==
    Series([i \in 1..Len(xs) |-> IF IsNaN(xs[i]) THEN Num(0) ELSE xs[i]])

\* a cleaning that back-fills before it forward-fills
CleanColumnBackFirst(xs) == FillZero(Ffill(Bfill(ReplaceInf(xs))))

\* one column through replace, ffill, bfill, fillna(0), in this order
CleanColumn(xs) == FillZero(Bfill(Ffill(ReplaceInf(xs))))

\* clean_data(df)
clean_data(input) ==
    LET own == CopyOf(input)
        cleaned == [columns |-> own.table.columns,
                    len |-> own.table.len,
                    data |-> [c \in Range(own.table.columns) |->
                                CleanColumn(own.table.data[c])]]
    IN [arg |-> input,
        ret |-> [status |-> "ok", op |-> "clean_data", table |-> cleaned]]

\* the cells of a raw column: valid numbers, missing, +inf and -inf
RawCells == {Num(x) : x \in 1..MaxClose} \cup {NaN, PInf, NInf}

\* a table of a column x of any cells and a column y that is either all
\* missing or all valid
GapTable(xs, missing) ==
    [columns |-> <<"x", "y">>,
     len |-> Len(xs),
     data |-> [c \in {"x", "y"} |->
                 Series([i \in 1..Len(xs) |->
                           IF c = "x" THEN xs[i]
                           ELSE IF missing THEN NaN ELSE Num(i)])]]

\* the first example of the specification
ExampleGaps == <<Num(1), NaN, NaN, Num(3)>>

InitClean ==
    /\ \E missing \in BOOLEAN :
          \/ \E n \in 0..MaxRows : \E xs \in [1..n -> RawCells] :
                tbl = GapTable(xs, missing)
          \/ tbl = GapTable(ExampleGaps, missing)
    /\ ret = NoResult
    /\ scaler = Unfitted
    /\ IdleRest
    /\ IdleEngine

\* a call of clean_data(tbl) on the processor
CleanData ==
    /\ ret = NoResult
    /\ \E r \in {clean_data(tbl)} :
          tbl' = r.arg /\ ret' = r.ret
    /\ UNCHANGED <<scaler, engineVars, procVars, restVars>>

NextClean == CleanData

SpecClean == InitClean /\ [][NextClean]_vars

\* text cells of an object column: the text of a number, and a text that
\* is no number
Txt(x) == [t |-> "str", n |-> x, d |-> 1]
Junk == [t |-> "str", n |-> 0, d |-> 0]

IsText(v) == v.t = "str"

\* pd.to_numeric(cell, errors='coerce')
ToNumeric(v) ==
    IF IsText(v) THEN (IF v = Junk THEN NaN ELSE Num(v.n)) ELSE v

\* an exclusion list that forgets the date column of the fetchers
exclude_colsWithoutTradeDate == <<"ts_code", "date", "symbol", "code", "name">>

exclude_cols == <<"trade_date", "ts_code", "date", "symbol", "code", "name">>

\* the df of a method that works on its parameter without a copy: the
\* caller's object
Handed(tab) == [table |-> tab, shared |-> TRUE]

\* df[cols]: a new table of the given columns
SelectCols(tab, cols) ==
    [columns |-> cols,
     len |-> tab.len,
     data |-> [c \in Range(cols) |-> tab.data[c]]]

\* prepare_features(df): feature_cols, the coercion loop over df[col], and
\* the selection that is returned
prepare_features(input) ==
    LET own == Handed(input)
        feature_cols == SelectSeq(own.table.columns,
                                  LAMBDA c : c \notin Range(exclude_cols))
        coerced == [columns |-> own.table.columns,
                    len |-> own.table.len,
                    data |-> [c \in Range(own.table.columns) |->
                                IF c \in Range(feature_cols)
                                THEN Series([i \in 1..own.table.len |->
                                               ToNumeric(own.table.data[c][i])])
                                ELSE own.table.data[c]]]
    IN [arg |-> IF own.shared THEN coerced ELSE input,
        ret |-> [status |-> "ok", op |-> "prepare_features",
                 table |-> SelectCols(coerced, feature_cols),
                 feature_cols |-> feature_cols]]

----------------------------------------------------------------------------
(* The MinMaxScaler of the processor *)

MaxScaleRows == 2
MaxScaleVal == 2

\* one value per column name, as an explicit function
PerColumn(f) == f @@ <<>>

\* np.nanmin / np.nanmax over the first k cells of a column
RECURSIVE NanMinUpTo(_, _)
NanMinUpTo(xs, k) ==
    IF k = 0 THEN NaN
    ELSE LET m == NanMinUpTo(xs, k - 1)
         IN IF IsNaN(xs[k]) THEN m
            ELSE IF IsNaN(m) \/ FLt(xs[k], m) THEN xs[k] ELSE m

RECURSIVE NanMaxUpTo(_, _)
NanMaxUpTo(xs, k) ==
    IF k = 0 THEN NaN
    ELSE LET m == NanMaxUpTo(xs, k - 1)
         IN IF IsNaN(xs[k]) THEN m
            ELSE IF IsNaN(m) \/ FGt(xs[k], m) THEN xs[k] ELSE m

\* a fit that widens the bounds it already has (partial_fit without reset)
FitAccumulating(tab, sc) ==
    LET lo(c) == NanMinUpTo(tab.data[c], tab.len)
        hi(c) == NanMaxUpTo(tab.data[c], tab.len)
        old(c) == sc.fitted /\ c \in Range(sc.columns)
    IN [fitted |-> TRUE,
        columns |-> tab.columns,
        data_min |-> PerColumn([c \in Range(tab.columns) |->
                                  IF old(c) /\ FLt(sc.data_min[c], lo(c))
                                  THEN sc.data_min[c] ELSE lo(c)]),
        data_max |-> PerColumn([c \in Range(tab.columns) |->
                                  IF old(c) /\ FGt(sc.data_max[c], hi(c))
                                  THEN sc.data_max[c] ELSE hi(c)])]

\* scaler.fit(df): the state is reset, then data_min_ and data_max_ of each
\* column are taken from the table
Fit(tab, sc) ==
    [fitted |-> TRUE,
     columns |-> tab.columns,
     data_min |-> PerColumn([c \in Range(tab.columns) |->
                               NanMinUpTo(tab.data[c], tab.len)]),
     data_max |-> PerColumn([c \in Range(tab.columns) |->
                               NanMaxUpTo(tab.data[c], tab.len)])]

\* a scale that divides by a zero range
ScaleOfNoZeroGuard(lo, hi) == FDiv(Num(1), FSub(hi, lo))

\* scale_ = 1 / data_range_, with a zero range replaced by 1
ScaleOf(lo, hi) ==
    LET range == FSub(hi, lo)
    IN IF IsNum(range) /\ range.n = 0 THEN Num(1) ELSE FDiv(Num(1), range)

\* a transform that leaves out the offset min_
ScaledCellNoOffset(x, lo, hi) == FMul(x, ScaleOf(lo, hi))

\* X * scale_ + min_, where min_ = 0 - data_min_ * scale_
ScaledCell(x, lo, hi) ==
    LET scale == ScaleOf(lo, hi)
    IN FAdd(FMul(x, scale), FSub(Num(0), FMul(lo, scale)))

\* scaler.transform(df) as a table with the columns and rows of df
Transform(tab, sc) ==
    [columns |-> tab.columns,
     len |-> tab.len,
     data |-> PerColumn([c \in Range(tab.columns) |->
                 LET xs == tab.data[c]
                     lo == sc.data_min[c]
                     hi == sc.data_max[c]
                 IN Series([i \in 1..tab.len |-> ScaledCell(xs[i], lo, hi)])])]

\* (X - min_) / scale_ of scaler.inverse_transform
InverseCell(v, lo, hi) ==
    LET scale == ScaleOf(lo, hi)
    IN FDiv(FSub(v, FSub(Num(0), FMul(lo, scale))), scale)

\* scaler.inverse_transform(scaled) as a table
InverseTransform(tab, sc) ==
    [columns |-> tab.columns,
     len |-> tab.len,
     data |-> PerColumn([c \in Range(tab.columns) |->
                 LET vs == tab.data[c]
                     lo == sc.data_min[c]
                     hi == sc.data_max[c]
                 IN Series([i \in 1..tab.len |-> InverseCell(vs[i], lo, hi)])])]

\* the input validation of the scaler: at least one row, no infinity and
\* no text that is not a number
Scalable(tab) ==
    /\ tab.len >= 1
    /\ tab.columns # <<>>
    /\ \A c \in Range(tab.columns) : \A i \in 1..tab.len :
          ~IsInf(tab.data[c][i]) /\ ~IsText(tab.data[c][i])

\* normalize_data(df, is_training) with the scaler in state sc: the
\* caller's table after the call, what is returned or raised, and the state
\* of the scaler after the call
normalize_data(input, is_training, sc) ==
    IF is_training
    THEN IF ~Scalable(input)
         THEN [arg |-> input, scaler |-> Unfitted,
               ret |-> [status |-> "ValueError", op |-> "normalize_data",
                        is_training |-> TRUE]]
         ELSE LET fitted == Fit(input, sc)
              IN [arg |-> input, scaler |-> fitted,
                  ret |-> [status |-> "ok", op |-> "normalize_data",
                           is_training |-> TRUE,
                           table |-> Transform(input, fitted)]]
    ELSE IF ~sc.fitted
         THEN [arg |-> input, scaler |-> sc,
               ret |-> [status |-> "NotFittedError", op |-> "normalize_data",
                        is_training |-> FALSE]]
         ELSE IF ~Scalable(input) \/ input.columns # sc.columns
         THEN [arg |-> input, scaler |-> sc,
               ret |-> [status |-> "ValueError", op |-> "normalize_data",
                        is_training |-> FALSE]]
         ELSE [arg |-> input, scaler |-> sc,
               ret |-> [status |-> "ok", op |-> "normalize_data",
                        is_training |-> FALSE,
                        table |-> Transform(input, sc)]]

\* the feature tables of the calls: a column x of any values and a column y
\* that holds twice the value of x plus one
ScaleTable(xs) ==
    [columns |-> <<"x", "y">>,
     len |-> Len(xs),
     data |-> PerColumn([c \in {"x", "y"} |->
                 Series([i \in 1..Len(xs) |->
                           IF c = "x" THEN Num(xs[i]) ELSE Num(2 * xs[i] + 1)])])]

ScaleTables ==
    UNION {{ScaleTable(xs) : xs \in [1..n -> 0..MaxScaleVal]} : n \in 0..MaxScaleRows}

InitScaler ==
    /\ tbl = NoTable
    /\ ret = NoResult
    /\ scaler = Unfitted
    /\ IdleRest
    /\ IdleEngine

\* a call of normalize_data(input, is_training) on the processor
NormalizeData ==
    /\ \E input \in ScaleTables, is_training \in BOOLEAN :
          \E r \in {normalize_data(input, is_training, scaler)} :
             tbl' = r.arg /\ ret' = r.ret /\ scaler' = r.scaler
    /\ UNCHANGED <<engineVars, procVars, restVars>>

NextScaler == NormalizeData

SpecScaler == InitScaler /\ [][NextScaler]_vars

----------------------------------------------------------------------------
(* Saving and loading the scaler *)

\* os.makedirs(os.path.dirname(path), exist_ok=True): an empty directory
\* name raises FileNotFoundError
MakeDirs(path) == IF path.dir = "" THEN "FileNotFoundError" ELSE "ok"

\* joblib.dump(self.scaler, path): the file holds the scaler as it is
Dump(sc) == [status |-> "file", scaler |-> sc]

\* save_scaler(path) with the scaler in state sc and the files in files
save_scaler(path, sc, files) ==
    IF MakeDirs(path) # "ok"
    THEN [disk |-> files, scaler |-> sc,
          ret |-> [status |-> MakeDirs(path), op |-> "save_scaler", path |-> path]]
    ELSE [disk |-> [files EXCEPT ![path] = Dump(sc)], scaler |-> sc,
          ret |-> [status |-> "ok", op |-> "save_scaler", path |-> path]]

\* load_scaler(path): the scaler of the file when os.path.exists(path),
\* else a printed warning and no change
load_scaler(path, sc, files) ==
    IF files[path] # NoFile
    THEN [disk |-> files, scaler |-> files[path].scaler,
          ret |-> [status |-> "ok", op |-> "load_scaler", path |-> path]]
    ELSE [disk |-> files, scaler |-> sc,
          ret |-> [status |-> "warning", op |-> "load_scaler", path |-> path]]

\* the feature tables of one row
RowTables == {ScaleTable(xs) : xs \in [1..1 -> 0..MaxScaleVal]}

InitStore ==
    /\ tbl = NoTable
    /\ ret = NoResult
    /\ scaler = Unfitted
    /\ disk = EmptyDisk
    /\ IdleFetch /\ IdleApi
    /\ IdleEngine

\* a call of normalize_data(input, is_training) on a table of one row
NormalizeRow ==
    /\ \E input \in RowTables, is_training \in BOOLEAN :
          \E r \in {normalize_data(input, is_training, scaler)} :
             tbl' = r.arg /\ ret' = r.ret /\ scaler' = r.scaler
    /\ UNCHANGED <<disk, engineVars, procVars, fetchVars, apiVars>>

\* a call of save_scaler(path) on the processor
SaveScaler ==
    /\ \E path \in Locations :
          \E r \in {save_scaler(path, scaler, disk)} :
             disk' = r.disk /\ scaler' = r.scaler /\ ret' = r.ret
    /\ UNCHANGED <<tbl, engineVars, procVars, fetchVars, apiVars>>

\* a call of load_scaler(path) on the processor
LoadScaler ==
    /\ \E path \in Locations :
          \E r \in {load_scaler(path, scaler, disk)} :
             disk' = r.disk /\ scaler' = r.scaler /\ ret' = r.ret
    /\ UNCHANGED <<tbl, engineVars, procVars, fetchVars, apiVars>>

\* a fresh DataProcessor() takes the place of the processor
NewProcessor ==
    /\ scaler' = Unfitted
    /\ ret' = [status |-> "ok", op |-> "DataProcessor"]
    /\ UNCHANGED <<tbl, disk, engineVars, procVars, fetchVars, apiVars>>

NextStore == NormalizeRow \/ SaveScaler \/ LoadScaler \/ NewProcessor

SpecStore == InitStore /\ [][NextStore]_vars

----------------------------------------------------------------------------
(* The table methods of the processor, each called once on a table that    *)
(* may hold text                                                           *)

\* the cells of the column x of such a table
FrameCells == {Num(1), NaN, Txt(2), Junk}

\* a table of closes 1, 2, ... and a column x, with or without a column of
\* date texts
FrameTable(xs, dated) ==
    LET names == IF dated THEN <<"trade_date", "close", "x">> ELSE <<"close", "x">>
    IN [columns |-> names,
        len |-> Len(xs),
        data |-> [c \in Range(names) |->
                    Series([i \in 1..Len(xs) |->
                              IF c = "trade_date" THEN Txt(i)
                              ELSE IF c = "close" THEN Num(i)
                              ELSE xs[i]])]]

InitFrame ==
    /\ \E n \in 1..MaxRows : \E xs \in [1..n -> FrameCells], dated \in BOOLEAN :
          tbl = FrameTable(xs, dated)
    /\ ret = NoResult
    /\ scaler = Unfitted
    /\ IdleRest
    /\ IdleEngine

\* a call of prepare_features(tbl) on the processor
PrepareFeatures ==
    /\ ret = NoResult
    /\ \E r \in {prepare_features(tbl)} :
          tbl' = r.arg /\ ret' = r.ret
    /\ UNCHANGED <<scaler, engineVars, procVars, restVars>>

\* a call of normalize_data(tbl, is_training) on the processor
NormalizeTable ==
    /\ ret = NoResult
    /\ \E is_training \in BOOLEAN :
          \E r \in {normalize_data(tbl, is_training, scaler)} :
             tbl' = r.arg /\ ret' = r.ret /\ scaler' = r.scaler
    /\ UNCHANGED <<engineVars, procVars, restVars>>

NextFrame == CleanData \/ PrepareFeatures \/ NormalizeTable \/ GenerateLabels

SpecFrame == InitFrame /\ [][NextFrame]_vars

----------------------------------------------------------------------------
(* The pipeline: a fetched table goes through calculate_all_indicators and *)
(* the table it returns is handed to clean_data or to generate_labels      *)

MaxPipeRows == 5

\* a fetched table (latest first) of any closes, for the pipeline; the
\* engine is not called on an empty fetch
InitPipeline(rows) ==
    /\ \E n \in 1..rows : \E closes \in [1..n -> 1..MaxClose] :
          df = PriceTable(FetchedColumns, LatestFirst(n), closes,
                          VolumeByDate(LatestFirst(n)))
    /\ cfg \in Configs
    /\ work = NoWork
    /\ out = NoResult
    /\ data = <<>> /\ target = <<>> /\ sequence_length = 0 /\ seq = NoResult
    /\ tbl = NoTable /\ ret = NoResult /\ scaler = Unfitted
    /\ IdleRest

InitPipeClean == InitPipeline(MaxPipeRows)

\* clean_data(out) on the table the engine returned
PipeCleanData ==
    /\ out.status = "ok"
    /\ ret = NoResult
    /\ \E r \in {clean_data(out.table)} :
          tbl' = r.arg /\ ret' = r.ret
    /\ UNCHANGED <<scaler, engineVars, procVars, restVars>>

NextPipeClean == CalculateAllIndicators \/ PipeCleanData

SpecPipeClean == InitPipeClean /\ [][NextPipeClean]_vars

InitPipeLabels == InitPipeline(MaxRows)

\* generate_labels(out, days, threshold) on the table the engine returned
PipeGenerateLabels ==
    /\ out.status = "ok"
    /\ ret = NoResult
    /\ \E days \in 0..MaxDays, threshold \in Thresholds :
          \E r \in {generate_labels(out.table, days, threshold)} :
             tbl' = r.arg /\ ret' = r.ret
    /\ UNCHANGED <<scaler, engineVars, procVars, restVars>>

NextPipeLabels == CalculateAllIndicators \/ PipeGenerateLabels

SpecPipeLabels == InitPipeLabels /\ [][NextPipeLabels]_vars

----------------------------------------------------------------------------
(* Properties of the indicator engine (SpecEngine, SpecSeries) *)

Returned == out.status = "ok"

Dated(tab) == HasCol(tab, "date")

\* the number of rows of a dated table with an earlier date than row j
DateRank(tab, j) ==
    Cardinality({k \in 1..tab.len : FLt(tab.data["date"][k], tab.data["date"][j])})

\* the row indices of a table in chronological order: by date when the table
\* has dates, in row order otherwise
Chrono(tab) ==
    IF Dated(tab)
    THEN [i \in 1..tab.len |-> CHOOSE j \in 1..tab.len : DateRank(tab, j) = i - 1]
    ELSE [i \in 1..tab.len |-> i]

\* column c of the returned table, oldest record first
OutCol(c) ==
    LET order == Chrono(out.table)
    IN [i \in 1..out.table.len |-> out.table.data[c][order[i]]]

OutLen == out.table.len

\* the caller's table with its rows put in ascending date order
InAscendingOrder(tab) ==
    LET renamed == Rename(tab, column_mapping)
        order == Chrono(renamed)
    IN [columns |-> tab.columns,
        len |-> tab.len,
        data |-> [c \in Range(tab.columns) |->
                    [i \in 1..tab.len |-> tab.data[c][order[i]]]]]

InputHas(c) ==
    \/ c \in Range(df.columns)
    \/ c = "volume" /\ "vol" \in Range(df.columns)

InputLacks == {c \in {"close", "high", "low", "volume"} : ~InputHas(c)}

InputDated == Range(df.columns) \cap DateNames # {}

\* C1: a call on a table that lacks any of close, high, low, volume (vol
\* counting as volume) raises an error that names exactly the missing
\* columns, computes no indicator and returns no table
C1_MissingColumnsRaise ==
    (out # NoResult /\ InputLacks # {}) =>
        /\ out.status = "ValueError"
        /\ Range(out.missing) = InputLacks
        /\ work = NoWork

C1_Witness ==
    /\ out.status = "ValueError"
    /\ Cardinality(Range(out.missing)) >= 2
    /\ df.len >= 1

\* C2: on a table with distinct dates the indicators are computed over the
\* rows in ascending date order, and what the call returns is what it returns
\* for the same records given in ascending order: the values attached to a
\* dated record do not depend on the order of the input rows
C2_AscendingComputation ==
    (work.status = "computed" /\ InputDated) =>
        /\ \A i \in 1..(work.table.len - 1) :
              FLt(work.table.data["date"][i], work.table.data["date"][i + 1])
        /\ out = calculate_all_indicators(InAscendingOrder(df), cfg).out

C2_Witness ==
    /\ Returned /\ InputDated /\ df.len >= 3
    /\ df # InAscendingOrder(df)
    /\ \E i \in 1..OutLen : FGt(OutCol("obv")[i], Num(0))
    /\ \E i \in 1..OutLen : FLt(OutCol("obv")[i], Num(0))

\* the number of rows of a table equal to the given row on the input columns
CountIn(tab, row, mapping) ==
    Cardinality({j \in 1..tab.len :
        \A c \in DOMAIN row :
            tab.data[IF c \in DOMAIN mapping THEN mapping[c] ELSE c][j] = row[c]})

\* C3: the returned table has exactly the rows of the input table (same
\* count, same values per record) and, when dated, is sorted by descending date
C3_SameRowsLatestFirst ==
    Returned =>
        /\ OutLen = df.len
        /\ \A i \in 1..df.len :
              CountIn(out.table, Row(df, i), column_mapping)
                  = CountIn(df, Row(df, i), <<>>)
        /\ InputDated =>
              \A j \in 1..(OutLen - 1) :
                  FGt(out.table.data["date"][j], out.table.data["date"][j + 1])

RECURSIVE FSum(_, _, _)
FSum(xs, lo, hi) == IF lo > hi THEN Num(0) ELSE FAdd(FSum(xs, lo, hi - 1), xs[hi])

\* C4: in chronological order ma_N at the i-th record (i counted from 1) is
\* the arithmetic mean of the N closes ending at it when i >= N, and is
\* missing (NaN, not zero) when i < N
C4_MovingAverage ==
    Returned =>
        \A N \in Range(cfg.ma_periods) : \A i \in 1..OutLen :
            LET ma == OutCol(MaName(N))[i]
                close == OutCol("close")
            IN IF i >= N
               THEN (\A k \in (i - N + 1)..i : IsNum(close[k])) =>
                        FEq(ma, FDiv(FSum(close, i - N + 1, i), Num(N)))
               ELSE IsNaN(ma)

C4_Witness ==
    /\ Returned /\ OutLen >= 3
    /\ \E N \in Range(cfg.ma_periods) :
          /\ N >= 2
          /\ IsNaN(OutCol(MaName(N))[N - 1])
          /\ \E i \in (N + 1)..OutLen :
                /\ IsNum(OutCol(MaName(N))[i])
                /\ OutCol("close")[i] # OutCol("close")[i - N]

\* the OBV step the close direction asks for at record i > 1
ObvStep(close, volume, i) ==
    IF FGt(close[i], close[i - 1]) THEN volume[i]
    ELSE IF FLt(close[i], close[i - 1]) THEN FNeg(volume[i])
    ELSE Num(0)

\* C5: OBV is 0 at the oldest record and at every later record differs from
\* the previous record's OBV by +volume, -volume or 0 as close rose, fell or
\* stayed
C5_ObvRecurrence ==
    Returned =>
        LET obv == OutCol("obv")
            close == OutCol("close")
            volume == OutCol("volume")
        IN /\ OutLen >= 1 => FEq(obv[1], Num(0))
           /\ \A i \in 2..OutLen :
                 FEq(FSub(obv[i], obv[i - 1]), ObvStep(close, volume, i))

C5_Witness ==
    /\ Returned /\ OutLen >= 3
    /\ \E i, j \in 2..OutLen :
          /\ FGt(OutCol("close")[i], OutCol("close")[i - 1])
          /\ FLt(OutCol("close")[j], OutCol("close")[j - 1])
          /\ OutCol("volume")[i] # OutCol("volume")[i - 1]
          /\ OutCol("volume")[j] # OutCol("volume")[j - 1]

\* C6: when close never falls from one record to the next, OBV never falls
C6_ObvMonotone ==
    Returned =>
        LET obv == OutCol("obv")
            close == OutCol("close")
        IN (\A i \in 2..OutLen : FLe(close[i - 1], close[i])) =>
               (\A i \in 2..OutLen : FLe(obv[i - 1], obv[i]))

C6_Witness ==
    /\ Returned /\ OutLen >= 3
    /\ \A i \in 2..OutLen : FLe(OutCol("close")[i - 1], OutCol("close")[i])
    /\ \E i \in 2..OutLen : FLt(OutCol("obv")[i - 1], OutCol("obv")[i])
    /\ \E i \in 2..OutLen : FEq(OutCol("obv")[i - 1], OutCol("obv")[i])

\* C7: every rsi value that is defined (not NaN) lies in [0, 100]
C7_RsiRange ==
    Returned =>
        \A i \in 1..OutLen :
            LET rsi == OutCol("rsi")[i]
            IN ~IsNaN(rsi) => FLe(Num(0), rsi) /\ FLe(rsi, Num(100))

C7_Witness ==
    /\ Returned
    /\ \E i \in 1..OutLen :
          FLt(Num(0), OutCol("rsi")[i]) /\ FLt(OutCol("rsi")[i], Num(100))
    /\ \E i \in 1..OutLen :
          FEq(OutCol("rsi")[i], Num(100)) \/ FEq(OutCol("rsi")[i], Num(0))

\* no close falls inside the RSI window ending at record i
NoFallInWindow(close, period, i) ==
    \A k \in (i - period + 1)..i : k >= 2 => FLe(close[k - 1], close[k])

\* C8: whenever the rolling mean loss over the RSI period is zero (a full
\* window in which no close falls), rsi is exactly 100, never missing
C8_ZeroLossIsHundred ==
    Returned =>
        \A i \in cfg.rsi_period..OutLen :
            NoFallInWindow(OutCol("close"), cfg.rsi_period, i) =>
                FEq(OutCol("rsi")[i], Num(100))

----------------------------------------------------------------------------
(* Properties of create_sequences (SpecProc) *)

Windowed == seq # NoResult

\* C9: for 0 < L < T, window i is rows [i, i+L) of the matrix in order and
\* its target is the target at row i+L, for every i in 0..T-L-1
C9_WindowAndLabel ==
    (Windowed /\ 0 < sequence_length /\ sequence_length < Len(data)) =>
        /\ seq.status = "ok"
        /\ \A i \in 0..(Len(data) - sequence_length - 1) :
              /\ i + 1 <= Len(seq.X) /\ i + 1 <= Len(seq.y)
              /\ seq.X[i + 1] = [j \in 1..sequence_length |-> data[i + j]]
              /\ seq.y[i + 1] = target[i + sequence_length + 1]

C9_Witness ==
    /\ Windowed /\ seq.status = "ok"
    /\ sequence_length >= 2 /\ Len(data) - sequence_length >= 1
    /\ target[sequence_length + 1] # target[sequence_length]
    /\ seq.y[1] = target[sequence_length + 1]
    /\ data[1] # data[2]

\* C10: the call returns T-L windows and T-L targets when T > L, and no
\* window and no target, without an error, when T <= L
C10_WindowCount ==
    Windowed =>
        /\ seq.status = "ok"
        /\ IF Len(data) > sequence_length
           THEN /\ Len(seq.X) = Len(data) - sequence_length
                /\ Len(seq.y) = Len(data) - sequence_length
           ELSE seq.X = <<>> /\ seq.y = <<>>

C10_Witness ==
    /\ Windowed /\ seq.status = "ok"
    /\ Len(data) >= 1 /\ Len(data) <= sequence_length
    /\ seq.X = <<>> /\ seq.y = <<>>

----------------------------------------------------------------------------
(* Properties of generate_labels (SpecLabels) *)

Labelled == ret.status = "ok" /\ ret.op = "generate_labels"

\* the close of the input at position i, as an exact rational
CloseAt(i) == tbl.data["close"][i]

\* the label column of the returned table, as integers
LabelsOut ==
    [k \in 1..ret.table.len |-> ret.table.data["label"][k].n]

\* C11: in every row of the table generate_labels returns, the forward
\* return is close[t+H] / close[t] - 1 and the label is 1 exactly when that
\* return is strictly above the threshold, 0 otherwise; on the closes
\* 100, 102, 108, 103, 95 with H = 2 and threshold 0.05 the labels of rows
\* 0, 1, 2 are 1, 0, 0
C11_ForwardReturnLabel ==
    Labelled =>
       /\ \A k \in 1..ret.table.len :
             LET t == ret.index[k]
                 H == ret.days
                 r == ret.table.data[FutureReturnName(H)][k]
             IN /\ t + H <= tbl.len
                /\ r = FSub(FDiv(CloseAt(t + H), CloseAt(t)), Num(1))
                /\ ret.table.data["label"][k] \in {Num(0), Num(1)}
                /\ ret.table.data["label"][k] = Num(1) <=>
                      /\ ~FLe(r, ret.threshold)
                      /\ ~IsNaN(r)
       /\ (/\ tbl = CloseTable(ExampleCloses)
           /\ ret.days = 2
           /\ FEq(ret.threshold, [t |-> "num", n |-> 5, d |-> 100]))
          => LabelsOut = <<1, 0, 0>>

\* a return exactly at the threshold is labelled 0, one above it 1, and
\* the example of the specification has been labelled
C11_Witness ==
    /\ Labelled
    /\ \E k \in 1..ret.table.len :
          /\ FEq(ret.table.data[FutureReturnName(ret.days)][k], ret.threshold)
          /\ ret.table.data["label"][k] = Num(0)
    /\ \E k \in 1..ret.table.len : ret.table.data["label"][k] = Num(1)

C11_ExampleWitness ==
    /\ Labelled
    /\ tbl = CloseTable(ExampleCloses)
    /\ ret.days = 2
    /\ FEq(ret.threshold, [t |-> "num", n |-> 5, d |-> 100])

\* the closes of the table are all finite and non-zero
ClosesNonZero ==
    \A i \in 1..tbl.len : IsNum(CloseAt(i)) /\ CloseAt(i).n # 0

\* the number of rows generate_labels keeps of T rows with horizon H
KeptCount(T, H) == IF H >= T THEN 0 ELSE T - H

\* C12: on a table of T rows with finite non-zero closes and horizon H,
\* generate_labels returns exactly the first T - H rows in their original
\* order (none when H >= T): the final H rows are removed, no other row is
C12_DropsLastRows ==
    (Labelled /\ ClosesNonZero) =>
       /\ ret.table.len = KeptCount(tbl.len, ret.days)
       /\ ret.index = [k \in 1..KeptCount(tbl.len, ret.days) |-> k]
       /\ \A k \in 1..ret.table.len : \A c \in Range(tbl.columns) :
             ret.table.data[c][k] = tbl.data[c][k]

\* a call with 1 <= H < T on non-zero closes, where the last of the rows
\* that are kept is labelled 0
C12_Witness ==
    /\ Labelled /\ ClosesNonZero
    /\ ret.days >= 1
    /\ tbl.len > ret.days
    /\ ret.table.len = tbl.len - ret.days
    /\ ret.table.data["label"][ret.table.len] = Num(0)

----------------------------------------------------------------------------
(* Properties of clean_data (SpecClean) *)

Cleaned == ret.status = "ok" /\ ret.op = "clean_data"

\* a cell that is neither missing nor infinite
Valid(v) == IsNum(v)

\* the rows of column c above (below) row i that hold a valid cell
ValidAbove(c, i) == {j \in 1..(i - 1) : Valid(tbl.data[c][j])}
ValidBelow(c, i) == {j \in (i + 1)..tbl.len : Valid(tbl.data[c][j])}

Highest(S) == CHOOSE j \in S : \A k \in S : k <= j
Lowest(S) == CHOOSE j \in S : \A k \in S : j <= k

\* what the four passes make of cell (c, i) of the input
CleanedCell(c, i) ==
    IF Valid(tbl.data[c][i]) THEN tbl.data[c][i]
    ELSE IF ValidAbove(c, i) # {} THEN tbl.data[c][Highest(ValidAbove(c, i))]
    ELSE IF ValidBelow(c, i) # {} THEN tbl.data[c][Lowest(ValidBelow(c, i))]
    ELSE Num(0)

\* C13: clean_data treats infinities as missing, fills a missing cell from
\* the nearest valid cell above it in its column, else from the nearest valid
\* cell below it, else with 0, and leaves valid cells as they are:
\* [1, NaN, NaN, 3] becomes [1, 1, 1, 3], [NaN, 2] becomes [2, 2] and an
\* all-missing column becomes zeros
C13_FillOrder ==
    Cleaned =>
       /\ \A c \in Range(tbl.columns) : \A i \in 1..tbl.len :
             ret.table.data[c][i] = CleanedCell(c, i)
       /\ tbl.data["x"] = ExampleGaps
             => ret.table.data["x"] = <<Num(1), Num(1), Num(1), Num(3)>>
       /\ tbl.data["x"] = <<NaN, Num(2)>>
             => ret.table.data["x"] = <<Num(2), Num(2)>>
       /\ (\A i \in 1..tbl.len : IsNaN(tbl.data["y"][i]))
             => \A i \in 1..tbl.len : ret.table.data["y"][i] = Num(0)

\* the first example has been cleaned, next to an all-missing column
C13_Witness ==
    /\ Cleaned
    /\ tbl.data["x"] = ExampleGaps
    /\ IsNaN(tbl.data["y"][1])

\* C14: the table clean_data returns has no missing and no infinite cell,
\* and the rows and columns of its input
C14_NoGapsSameShape ==
    Cleaned =>
       /\ ret.table.columns = tbl.columns
       /\ ret.table.len = tbl.len
       /\ \A c \in Range(tbl.columns) :
             /\ Len(ret.table.data[c]) = tbl.len
             /\ \A i \in 1..tbl.len : Valid(ret.table.data[c][i])

\* a cleaned table that held a missing cell, +inf and -inf
C14_Witness ==
    /\ Cleaned
    /\ \E i, j, k \in 1..tbl.len :
          /\ IsNaN(tbl.data["x"][i])
          /\ tbl.data["x"][j] = PInf
          /\ tbl.data["x"][k] = NInf

----------------------------------------------------------------------------
(* Properties of the pipeline (SpecPipeClean, SpecPipeLabels) *)

\* the date of row i of the table handed to the processor
DateOf(i) == tbl.data["date"][i]

Missing(c, i) == ~Valid(tbl.data[c][i])

\* the rows with a valid cell in column c of an earlier (a later) date than row i
EarlierValid(c, i) ==
    {j \in 1..tbl.len : Valid(tbl.data[c][j]) /\ FLt(DateOf(j), DateOf(i))}
LaterValid(c, i) ==
    {j \in 1..tbl.len : Valid(tbl.data[c][j]) /\ FLt(DateOf(i), DateOf(j))}

MostRecent(S) == CHOOSE j \in S : \A k \in S : FLe(DateOf(k), DateOf(j))

\* the forward-fill pass writes cell (c, i): it is missing and a valid cell
\* stands above it in the table
WrittenByFfill(c, i) == Missing(c, i) /\ ValidAbove(c, i) # {}

\* every value the forward-fill pass writes comes from the most recent
\* earlier-dated valid record
FfillFromEarlier ==
    \A c \in Range(tbl.columns) : \A i \in 1..tbl.len :
       WrittenByFfill(c, i) =>
          /\ EarlierValid(c, i) # {}
          /\ Highest(ValidAbove(c, i)) = MostRecent(EarlierValid(c, i))

\* a missing cell with an earlier valid record takes that record's value
NoFillFromLater ==
    \A c \in Range(tbl.columns) : \A i \in 1..tbl.len :
       (Missing(c, i) /\ EarlierValid(c, i) # {}) =>
          ret.table.data[c][i] = tbl.data[c][MostRecent(EarlierValid(c, i))]

\* a gap at the start of the history is left to the back-fill pass
LeadingGapsBackFilled ==
    \A c \in Range(tbl.columns) : \A i \in 1..tbl.len :
       (Missing(c, i) /\ EarlierValid(c, i) = {} /\ LaterValid(c, i) # {}) =>
          ~WrittenByFfill(c, i)

\* C15: when the table the engine returns is cleaned, every value the
\* forward-fill pass writes comes from the most recent earlier-dated valid
\* record, no missing value is filled from a later-dated record while an
\* earlier valid one exists, and the gaps at the start of the history are
\* the ones the back-fill pass fills
C15_FillsFromThePast ==
    (Returned /\ Cleaned) =>
       /\ FfillFromEarlier
       /\ NoFillFromLater
       /\ LeadingGapsBackFilled

\* the place of row i in the chronological order of the table (1 = oldest)
ChronoPos(i) ==
    Cardinality({j \in 1..tbl.len : FLe(DateOf(j), DateOf(i))})

RowAtChrono(p) == CHOOSE i \in 1..tbl.len : ChronoPos(i) = p

\* the rows of the table that generate_labels did not return
Dropped == (1..tbl.len) \ Range(ret.index)

\* C16: when the table the engine returns is labelled with horizon H, the
\* forward return of a record is the change of the close up to the record H
\* trading days later in time, and the rows that are dropped are those of
\* the H most recent dates
C16_ReturnLooksForward ==
    (Returned /\ Labelled) =>
       /\ \A k \in 1..ret.table.len :
             LET t == ret.index[k]
                 later == ChronoPos(t) + ret.days
             IN /\ later <= tbl.len
                /\ FEq(ret.table.data[FutureReturnName(ret.days)][k],
                       FSub(FDiv(CloseAt(RowAtChrono(later)), CloseAt(t)), Num(1)))
       /\ Dropped = {i \in 1..tbl.len : ChronoPos(i) > tbl.len - ret.days}

----------------------------------------------------------------------------
(* Frame effects: what a call does to the table it was handed *)

\* C17: a call of calculate_all_indicators leaves the table it was handed
\* as it was (columns, names, row order, values), when it returns and when
\* it raises
C17_EngineKeepsInput == [][df' = df]_vars

\* the engine has returned for an oldest-first table with the fetchers'
\* column names: the columns were renamed, the rows re-sorted and the
\* indicator columns added, all on the engine's own table
C17_Witness ==
    /\ Returned
    /\ HasCol(df, "trade_date") /\ HasCol(df, "vol")
    /\ df.len >= 2
    /\ FLt(df.data["trade_date"][1], df.data["trade_date"][2])
    /\ HasCol(out.table, "obv") /\ ~HasCol(df, "obv")

\* C18: each method of the processor that takes a table (clean_data,
\* prepare_features, normalize_data, generate_labels) leaves the table it
\* was handed as it was: no cell and no column differs after the call
C18_ProcessorKeepsInput == [][tbl' = tbl]_vars

----------------------------------------------------------------------------
(* Properties of normalize_data (SpecScaler) *)

Normalized == ret.status = "ok" /\ ret.op = "normalize_data"

InUnitRange(v) == FLe(Num(0), v) /\ FLe(v, Num(1))

\* the returned table has the columns and the rows of the input
SameShape ==
    /\ ret.table.columns = tbl.columns
    /\ ret.table.len = tbl.len
    /\ \A c \in Range(tbl.columns) : Len(ret.table.data[c]) = tbl.len

\* cell (c, i) of the input lies within the bounds the scaler holds
WithinFit(c, i) ==
    /\ FLe(scaler.data_min[c], tbl.data[c][i])
    /\ FLe(tbl.data[c][i], scaler.data_max[c])

\* C19 as stated: in training mode and in inference mode alike, every value
\* of the table normalize_data returns lies in [0, 1], and the table has the
\* columns and rows of the input
C19_UnitRangeInBothModes ==
    Normalized =>
       /\ SameShape
       /\ \A c \in Range(tbl.columns) : \A i \in 1..tbl.len :
             InUnitRange(ret.table.data[c][i])

\* C19 amended: the table normalize_data returns has the columns and rows of
\* the input; in training mode every value lies in [0, 1]; in inference
\* mode every value that lies within the fit bounds of its column does
C19_UnitRangeWithinFit ==
    Normalized =>
       /\ SameShape
       /\ \A c \in Range(tbl.columns) : \A i \in 1..tbl.len :
             (ret.is_training \/ WithinFit(c, i)) =>
                InUnitRange(ret.table.data[c][i])

\* an inference call on a table with one value inside the fit bounds, scaled
\* into [0, 1], and one value above them, scaled above 1
C19_Witness ==
    /\ Normalized
    /\ ~ret.is_training
    /\ \E i, j \in 1..tbl.len :
          /\ WithinFit("x", i)
          /\ InUnitRange(ret.table.data["x"][i])
          /\ ~WithinFit("x", j)
          /\ FGt(ret.table.data["x"][j], Num(1))

\* the least and the greatest cell of a column of a table
LeastOf(tab, c) ==
    CHOOSE v \in Range(tab.data[c]) : \A w \in Range(tab.data[c]) : FLe(v, w)
GreatestOf(tab, c) ==
    CHOOSE v \in Range(tab.data[c]) : \A w \in Range(tab.data[c]) : FLe(w, v)

\* the scaler holds the bounds of the columns of this table
HoldsBoundsOf(sc, tab) ==
    /\ sc.fitted
    /\ sc.columns = tab.columns
    /\ \A c \in Range(tab.columns) :
          /\ FEq(sc.data_min[c], LeastOf(tab, c))
          /\ FEq(sc.data_max[c], GreatestOf(tab, c))

\* the table res is the table tab scaled with the bounds the scaler holds
ScaledWith(sc, tab, res) ==
    \A c \in Range(tab.columns) : \A i \in 1..tab.len :
       LET range == FSub(sc.data_max[c], sc.data_min[c])
           above == FSub(tab.data[c][i], sc.data_min[c])
       IN IF range.n = 0 THEN FEq(res.data[c][i], above)
          ELSE FEq(FMul(res.data[c][i], range), above)

\* C20: in every call of normalize_data that returns, an inference call
\* scales with the bounds the scaler held before the call (those of the
\* most recent training call) and leaves them as they are, and a training
\* call leaves the scaler with the bounds of its own input alone
C20_BoundsOfLastTraining ==
    [][(ret'.status = "ok" /\ ret'.op = "normalize_data") =>
         IF ret'.is_training
         THEN /\ HoldsBoundsOf(scaler', tbl')
              /\ ScaledWith(scaler', tbl', ret'.table)
         ELSE /\ scaler' = scaler
              /\ ScaledWith(scaler, tbl', ret'.table)]_vars

\* an inference call has returned on a table whose own bounds differ, in
\* both columns, from the bounds the scaler holds
C20_Witness ==
    /\ Normalized
    /\ ~ret.is_training
    /\ tbl.len >= 2
    /\ \A c \in Range(tbl.columns) :
          /\ ~FEq(scaler.data_min[c], LeastOf(tbl, c))
          /\ ~FEq(scaler.data_max[c], GreatestOf(tbl, c))

\* a column of the table whose cells are all equal
ConstantColumn(tab, c) ==
    \A i, j \in 1..tab.len : FEq(tab.data[c][i], tab.data[c][j])

\* C21: after normalize_data in training mode, the inverse scaling of the
\* fitted scaler gives back the values of the input, also in a column whose
\* values are all equal
C21_RoundTrip ==
    (Normalized /\ ret.is_training) =>
       LET back == InverseTransform(ret.table, scaler)
       IN /\ back.columns = tbl.columns
          /\ back.len = tbl.len
          /\ \A c \in Range(tbl.columns) : \A i \in 1..tbl.len :
                FEq(back.data[c][i], tbl.data[c][i])

\* a training call on a table of two rows whose columns are constant and
\* not zero: every cell was scaled to 0
C21_Witness ==
    /\ Normalized /\ ret.is_training
    /\ tbl.len >= 2
    /\ ConstantColumn(tbl, "x")
    /\ FGt(tbl.data["x"][1], Num(0))
    /\ \A i \in 1..tbl.len : FEq(ret.table.data["x"][i], Num(0))

----------------------------------------------------------------------------
(* Properties of save_scaler and load_scaler (SpecStore) *)

\* the step is a call of save_scaler on a fitted scaler that leaves the
\* scaler in the file at the location of the call
SavedAt(path) ==
    /\ ret'.status = "ok"
    /\ disk'[path] # NoFile
    /\ disk'[path].scaler = scaler
    /\ scaler' = scaler

\* C22: at any location the caller gives, save_scaler stores the fitted
\* bounds and a later load_scaler at that location, on the same or on a
\* fresh processor, puts back the bounds that were saved there
C22_SaveThenLoadRestores ==
    [][/\ (ret'.op = "save_scaler" /\ scaler.fitted) => SavedAt(ret'.path)
       /\ (ret'.op = "load_scaler" /\ disk[ret'.path] # NoFile) =>
             scaler' = disk[ret'.path].scaler]_vars

----------------------------------------------------------------------------
(* Invalid configuration (SpecProc) *)

\* C23: a sequence_length that is not positive makes create_sequences abort
\* with an error; no (X, y) computed with it is returned
C23_InvalidLengthAborts ==
    seq.status = "ok" => sequence_length > 0

----------------------------------------------------------------------------
(* TechnicalIndicators.calculate_kdj *)

MaxKdjRows == 2
MaxPrice == 2

RECURSIVE Gcd(_, _)
Gcd(a, b) == IF b = 0 THEN a ELSE Gcd(b, a % b)

\* the same float with its fraction in lowest terms
Reduced(v) ==
    IF ~IsNum(v) THEN v
    ELSE IF v.n = 0 THEN Num(0)
    ELSE LET g == Gcd(IF v.n < 0 THEN -v.n ELSE v.n, v.d)
         IN [t |-> "num", n |-> v.n \div g, d |-> v.d \div g]

\* the values of a rolling window that ends at row i
WindowAt(xs, window, i) == {xs[j] : j \in (i - window + 1)..i}

\* series.rolling(window).min(): missing until the window is full and
\* wherever the window holds a missing value
RollingMin(xs, window) ==
    Series([i \in 1..Len(xs) |->
              IF i < window \/ \E v \in WindowAt(xs, window, i) : ~IsNum(v)
              THEN NaN
              ELSE CHOOSE v \in WindowAt(xs, window, i) :
                      \A w \in WindowAt(xs, window, i) : FLe(v, w)])

\* series.rolling(window).max()
RollingMax(xs, window) ==
    Series([i \in 1..Len(xs) |->
              IF i < window \/ \E v \in WindowAt(xs, window, i) : ~IsNum(v)
              THEN NaN
              ELSE CHOOSE v \in WindowAt(xs, window, i) :
                      \A w \in WindowAt(xs, window, i) : FLe(w, v)])

\* series.ewm(com=com, adjust=False).mean(), the state after row i >= 1:
\* alpha = 1 / (1 + com); a missing input keeps the average and fades the
\* weight of the history; the first value after missing ones starts the
\* average; an average equal to the input is left alone
RECURSIVE EwmComState(_, _, _)
EwmComState(xs, com, i) ==
    IF i = 1
    THEN [weighted |-> xs[1], old_wt |-> Num(1),
          nobs |-> IF IsNaN(xs[1]) THEN 0 ELSE 1]
    ELSE LET s == EwmComState(xs, com, i - 1)
             cur == xs[i]
             alpha == [t |-> "num", n |-> 1, d |-> 1 + com]
             faded == Reduced(FMul(s.old_wt, FSub(Num(1), alpha)))
         IN IF ~IsNaN(s.weighted)
            THEN IF ~IsNaN(cur)
                 THEN [weighted |->
                          IF FEq(s.weighted, cur) THEN s.weighted
                          ELSE Reduced(FDiv(FAdd(FMul(faded, s.weighted),
                                                 FMul(alpha, cur)),
                                            FAdd(faded, alpha))),
                       old_wt |-> Num(1),
                       nobs |-> s.nobs + 1]
                 ELSE [s EXCEPT !.old_wt = faded]
            ELSE IF ~IsNaN(cur)
                 THEN [weighted |-> cur, old_wt |-> s.old_wt, nobs |-> s.nobs + 1]
                 ELSE s

EwmComMean(xs, com) ==
    Series([i \in 1..Len(xs) |->
              LET s == EwmComState(xs, com, i)
              IN IF s.nobs >= 1 THEN s.weighted ELSE NaN])

\* rsv = (df['close'] - low_min) / (high_max - low_min) * 100
Rsv(tab, n) ==
    LET low_min == RollingMin(Col(tab, "low"), n)
        high_max == RollingMax(Col(tab, "high"), n)
    IN Series([i \in 1..tab.len |->
                 Reduced(FMul(FDiv(FSub(Col(tab, "close")[i], low_min[i]),
                                   FSub(high_max[i], low_min[i])),
                              Num(100)))])

\* kdj_k, kdj_d and kdj_j written into the table that was handed in
calculate_kdj(tab, params) ==
    LET n == params[1]
        m1 == params[2]
        m2 == params[3]
        kdj_k == EwmComMean(Rsv(tab, n), m1 - 1)
        kdj_d == EwmComMean(kdj_k, m2 - 1)
        kdj_j == Series([i \in 1..tab.len |->
                           Reduced(FSub(FMul(Num(3), kdj_k[i]),
                                        FMul(Num(2), kdj_d[i])))])
    IN SetCol(SetCol(SetCol(tab, "kdj_k", kdj_k), "kdj_d", kdj_d),
              "kdj_j", kdj_j)

\* a table of n records with low <= high; the close is a field of its own
OhlcTable(lows, spreads, closes) ==
    LET n == Len(lows)
    IN [columns |-> <<"high", "low", "close">>,
        len |-> n,
        data |-> PerColumn([c \in {"high", "low", "close"} |->
                    Series([i \in 1..n |->
                              IF c = "low" THEN Num(lows[i])
                              ELSE IF c = "high" THEN Num(lows[i] + spreads[i])
                              ELSE Num(closes[i])])])]

\* config.yaml, features.technical.kdj_params: (n, m1, m2)
KdjConfigs == {[kdj_params |-> <<n, MaxPeriod, MaxPeriod>>] : n \in 1..MaxPeriod}

InitKdj ==
    /\ \E n \in 0..MaxKdjRows :
          \E lows \in [1..n -> 1..MaxPrice], spreads \in [1..n -> 0..1],
             closes \in [1..n -> 1..MaxPrice] :
              df = OhlcTable(lows, spreads, closes)
    /\ cfg \in KdjConfigs
    /\ work = NoWork
    /\ out = NoResult
    /\ data = <<>> /\ target = <<>> /\ sequence_length = 0 /\ seq = NoResult
    /\ tbl = NoTable /\ ret = NoResult /\ scaler = Unfitted
    /\ IdleRest

\* a call of calculate_kdj(df) on the engine
CalculateKdj ==
    /\ out = NoResult
    /\ \E r \in {calculate_kdj(df, cfg.kdj_params)} :
          out' = [status |-> "ok", table |-> r] /\ df' = r
    /\ UNCHANGED <<cfg, work, procVars, tableVars, restVars>>

NextKdj == CalculateKdj

SpecKdj == InitKdj /\ [][NextKdj]_vars

----------------------------------------------------------------------------
(* Properties of calculate_kdj (SpecKdj) *)

\* the records of a table whose high/low range over the KDJ window is zero
FlatRecords(tab, n) ==
    {i \in 1..tab.len :
        FEq(RollingMax(Col(tab, "high"), n)[i], RollingMin(Col(tab, "low"), n)[i])}

NoInfinite(xs) == \A i \in 1..Len(xs) : ~IsInf(xs[i])

----------------------------------------------------------------------------
(* Properties of prepare_features (SpecFrame) *)

\* the identifier, date and text columns that are no features
NotFeatures == {"trade_date", "ts_code", "date", "symbol", "code", "name"}

\* a cell that pd.to_numeric cannot read as a number
Uncoercible(v) == v.t = "str" /\ v.d = 0

\* C25: prepare_features returns a table whose columns are exactly the
\* returned name list in its order, none of them an identifier, date or text
\* column, every other column of the input is kept, and a value that cannot
\* be coerced to a number becomes missing instead of raising
C25_FeatureSelection ==
    [][ret'.op = "prepare_features" =>
         /\ ret'.status = "ok"
         /\ ret'.table.columns = ret'.feature_cols
         /\ Range(ret'.feature_cols) \cap NotFeatures = {}
         /\ ret'.feature_cols =
               SelectSeq(tbl.columns, LAMBDA c : c \notin NotFeatures)
         /\ \A c \in Range(ret'.feature_cols) : \A i \in 1..tbl.len :
               Uncoercible(tbl.data[c][i]) => IsNaN(ret'.table.data[c][i])]_vars

\* a dated table with an unreadable cell went through prepare_features
C25_Witness ==
    /\ ret.status = "ok" /\ ret.op = "prepare_features"
    /\ HasCol(tbl, "trade_date")
    /\ ret.feature_cols = <<"close", "x">>
    /\ \E i \in 1..ret.table.len : IsNaN(ret.table.data["x"][i])

----------------------------------------------------------------------------
(* StockDataFetcher.get_daily_data without a Tushare client (self.pro is  *)
(* None): Eastmoney first, Sina as the fallback, then the common part     *)

MaxFetchRows == 3

\* a calendar date as a provider delivers it: day k counted from 2024-01-30
Date(k) == [t |-> "date", n |-> k, d |-> 1]

\* pd.to_datetime(cell) formatted with '%Y%m%d': the eight digits of the
\* date as a text (2024-01-30, 2024-01-31, 2024-02-01, ...)
StrfTime(v) == Txt(IF v.n <= 2 THEN 20240129 + v.n ELSE 20240200 + (v.n - 2))

\* the codes asked for: one of Shanghai, one of the Beijing exchange
StockCodes == {[symbol |-> "600519", exchange |-> "SH"],
               [symbol |-> "430047", exchange |-> "BJ"]}

\* the headers of ak.stock_zh_a_hist for date, close and volume (Chinese in
\* the source, transliterated here)
EastmoneyColumns == <<"riqi", "shoupan", "chengjiaoliang">>

\* column_mapping of the Eastmoney branch, for the columns of the model
eastmoney_mapping ==
    ("riqi" :> "trade_date") @@ ("shoupan" :> "close") @@ ("chengjiaoliang" :> "vol")

\* the headers of ak.stock_zh_a_daily for date, close and volume
SinaColumns == <<"date", "close", "volume">>

sina_mapping == ("date" :> "trade_date") @@ ("volume" :> "vol")

\* a table of a provider: its date, close and volume columns, rows in any
\* order of the dates
ProviderTable(names, dates, closes) ==
    [columns |-> names,
     len |-> Len(dates),
     data |-> PerColumn([c \in Range(names) |->
                 Series([i \in 1..Len(dates) |->
                           IF c = names[1] THEN Date(dates[i])
                           ELSE IF c = names[2] THEN Num(closes[i])
                           ELSE Num(1)])])]

ProviderTables(names) ==
    UNION {{ProviderTable(names, dates, closes) :
               dates \in DateOrders(n), closes \in [1..n -> 1..MaxPrice]} :
           n \in 0..MaxFetchRows}

\* what a provider call does: it raises, or it delivers a table
Responses(names) ==
    {[raised |-> TRUE, table |-> NoTable]}
       \cup {[raised |-> FALSE, table |-> t] : t \in ProviderTables(names)}

\* df.empty
IsEmpty(tab) == tab.len = 0 \/ tab.columns = <<>>

\* the Eastmoney branch after the call: the rename of a table that is not empty
EastmoneyFrame(tab) ==
    IF ~IsEmpty(tab) THEN Rename(tab, eastmoney_mapping) ELSE tab

\* df.fillna(0)
FillNaZero(tab) ==
    [columns |-> tab.columns,
     len |-> tab.len,
     data |-> PerColumn([c \in Range(tab.columns) |->
                 Series([i \in 1..tab.len |->
                           IF IsNaN(tab.data[c][i]) THEN Num(0) ELSE tab.data[c][i]])])]

\* the Sina branch after the call: rename, pct_chg, change, ts_code, fillna
SinaFrame(tab, code) ==
    IF IsEmpty(tab) THEN tab
    ELSE LET renamed == Rename(tab, sina_mapping)
             pct == PctChange(Col(renamed, "close"), 1)
             pct_chg == Series([i \in 1..renamed.len |-> FMul(pct[i], Num(100))])
             ts_code == Series([i \in 1..renamed.len |->
                                  [t |-> "str", n |-> code.symbol, d |-> 1]])
         IN FillNaZero(SetCol(SetCol(SetCol(renamed, "pct_chg", pct_chg),
                                     "change", Diff(Col(renamed, "close"))),
                              "ts_code", ts_code))

numeric_cols == <<"open", "close", "high", "low", "vol", "amount">>

\* for col in numeric_cols: if col in df.columns: df[col] = pd.to_numeric(...)
RECURSIVE CoerceNumeric(_, _)
CoerceNumeric(tab, cols) ==
    IF cols = <<>> THEN tab
    ELSE CoerceNumeric(
            IF HasCol(tab, Head(cols))
            THEN SetCol(tab, Head(cols),
                        Series([i \in 1..tab.len |-> ToNumeric(tab.data[Head(cols)][i])]))
            ELSE tab,
            Tail(cols))

\* a final sort that puts the oldest record first
SortLatestFirstAscending(tab) == SortValues(tab, "trade_date", TRUE)

\* df.sort_values('trade_date', ascending=False).reset_index(drop=True)
SortLatestFirst(tab) == SortValues(tab, "trade_date", FALSE)

\* the common part: dates as YYYYMMDD texts, numeric columns, latest first
CommonProcessing(tab) ==
    IF IsEmpty(tab) THEN [status |-> "ok", table |-> tab]
    ELSE LET dated == IF HasCol(tab, "trade_date")
                      THEN SetCol(tab, "trade_date",
                                  Series([i \in 1..tab.len |->
                                            StrfTime(tab.data["trade_date"][i])]))
                      ELSE tab
             numeric == CoerceNumeric(dated, numeric_cols)
         IN IF ~HasCol(numeric, "trade_date")
            THEN [status |-> "KeyError", table |-> NoTable]
            ELSE [status |-> "ok", table |-> SortLatestFirst(numeric)]

InitFetch ==
    /\ stock_code \in StockCodes
    /\ position = "eastmoney"
    /\ calls = <<>>
    /\ fetched = NoResult
    /\ IdleApi /\ disk = EmptyDisk
    /\ tbl = NoTable /\ ret = NoResult /\ scaler = Unfitted
    /\ IdleEngine

\* ak.stock_zh_a_hist(...) and the rest of the outer try block
QueryEastmoney ==
    /\ position = "eastmoney"
    /\ \E resp \in Responses(EastmoneyColumns) :
          /\ calls' = Append(calls, [to |-> "eastmoney", raised |-> resp.raised])
          /\ IF resp.raised
             THEN position' = "sina" /\ fetched' = fetched
             ELSE /\ position' = "common"
                  /\ fetched' = [status |-> "ok", table |-> EastmoneyFrame(resp.table)]
    /\ UNCHANGED <<stock_code, engineVars, procVars, tableVars, disk, apiVars>>

\* the except branch: a code of the Beijing exchange raises before the call,
\* otherwise ak.stock_zh_a_daily(...); any exception returns pd.DataFrame()
QuerySina ==
    /\ position = "sina"
    /\ IF stock_code.exchange = "BJ"
       THEN /\ calls' = calls
            /\ position' = "done"
            /\ fetched' = [status |-> "ok", table |-> NoTable]
       ELSE \E resp \in Responses(SinaColumns) :
               /\ calls' = Append(calls, [to |-> "sina", raised |-> resp.raised])
               /\ IF resp.raised
                  THEN /\ position' = "done"
                       /\ fetched' = [status |-> "ok", table |-> NoTable]
                  ELSE /\ position' = "common"
                       /\ fetched' = [status |-> "ok",
                                      table |-> SinaFrame(resp.table, stock_code)]
    /\ UNCHANGED <<stock_code, engineVars, procVars, tableVars, disk, apiVars>>

\* the common part and the return
ReturnDaily ==
    /\ position = "common"
    /\ fetched' = CommonProcessing(fetched.table)
    /\ position' = "done"
    /\ UNCHANGED <<stock_code, calls, engineVars, procVars, tableVars, disk, apiVars>>

NextFetch == QueryEastmoney \/ QuerySina \/ ReturnDaily

SpecFetch == InitFetch /\ [][NextFetch]_vars

----------------------------------------------------------------------------
(* Properties of get_daily_data (SpecFetch) *)

\* the records of a table are in descending order of their YYYYMMDD texts
\* (texts of eight digits compare as their numbers)
LatestFirstByDate(tab) ==
    \A i, j \in 1..tab.len : i < j => tab.data["trade_date"][i].n > tab.data["trade_date"][j].n

\* C26: without a Tushare client Eastmoney is queried first and Sina only
\* after the Eastmoney call raised; when Sina raises too (a .BJ code is
\* rejected before the call) the result is an empty table and no exception;
\* every non-empty table returned is in descending order of trade_date
C26_EastmoneyThenSina ==
    /\ \A i \in 1..Len(calls) :
          /\ calls[i].to = "eastmoney" => i = 1
          /\ calls[i].to = "sina" => i = 2 /\ calls[1].to = "eastmoney" /\ calls[1].raised
    /\ position \in {"sina", "common", "done"} => Len(calls) >= 1
    /\ (/\ position = "done"
        /\ calls[1].raised
        /\ (stock_code.exchange = "BJ" \/ calls[Len(calls)].raised))
          => fetched.status = "ok" /\ IsEmpty(fetched.table)
    /\ (position = "done" /\ fetched.status = "ok" /\ ~IsEmpty(fetched.table))
          => LatestFirstByDate(fetched.table)

\* Sina was asked after Eastmoney raised and its records came back latest first
C26_Witness ==
    /\ position = "done"
    /\ Len(calls) = 2 /\ calls[1].raised /\ ~calls[2].raised
    /\ fetched.status = "ok" /\ fetched.table.len >= 2

----------------------------------------------------------------------------
(* GET /api/stock/<code>: get_stock_detail of the web API *)

\* the column sets of a table that get_daily_data gives back: the names of
\* the AkShare branches, and a table that carries 'date' in place of
\* 'trade_date'
DetailColumnSets ==
    {FetchedColumns, (FetchedColumns \ {"trade_date"}) \cup {"date"}}

\* jsonify({'error': message}), status
ErrorResponse(status, message) ==
    [status |-> status, error |-> message, payload |-> <<>>]

\* row.get(c, default)
GetOr(tab, i, c, default) == IF HasCol(tab, c) THEN tab.data[c][i] ELSE default

\* the answer of get_stock_detail once the indicators are computed: the
\* latest record is row 0 of the engine's result
DetailAnswer(engine_out, features_raise) ==
    IF engine_out.status # "ok" THEN ErrorResponse(500, engine_out.status)
    ELSE IF features_raise THEN ErrorResponse(500, "extract_all_features")
    ELSE IF engine_out.table.len = 0 THEN ErrorResponse(500, "IndexError")
    ELSE IF ~HasCol(engine_out.table, "trade_date")
         THEN ErrorResponse(500, "Invalid data format: missing trade_date")
    ELSE IF ~HasCol(engine_out.table, "close") \/ ~HasCol(engine_out.table, "vol")
         THEN ErrorResponse(500, "KeyError")
    ELSE [status |-> 200, error |-> "",
          payload |->
             [info |-> [date |-> engine_out.table.data["trade_date"][1],
                        price |-> GetOr(engine_out.table, 1, "close", Num(0)),
                        volume |-> GetOr(engine_out.table, 1, "vol", Num(0))],
              history |-> SelectCols(engine_out.table,
                                     <<"trade_date", "close", "vol">>)]]

\* df_indicators = tech_calculator.calculate_all_indicators(df) and the
\* answer built from it
AnswerFrom(r, features_raise) ==
    [engine |-> r, response |-> DetailAnswer(r.out, features_raise)]

\* the body of get_stock_detail after the fetch: df is what get_daily_data
\* gave back, features_raise says whether extract_all_features raised
get_stock_detail(fetched_df, params, features_raise) ==
    IF IsEmpty(fetched_df)
    THEN [engine |-> [work |-> NoWork, out |-> NoResult, caller |-> fetched_df],
          response |-> ErrorResponse(404, "No data found")]
    ELSE AnswerFrom(calculate_all_indicators(fetched_df, params), features_raise)

InitDetail ==
    /\ \E S \in DetailColumnSets, n \in 0..MaxRows :
          \E closes \in [1..n -> 1..MaxClose] :
             df = PriceTable(S, LatestFirst(n), closes, VolumeByDate(LatestFirst(n)))
    /\ cfg \in Configs
    /\ work = NoWork
    /\ out = NoResult
    /\ data = <<>> /\ target = <<>> /\ sequence_length = 0 /\ seq = NoResult
    /\ tbl = NoTable /\ ret = NoResult /\ scaler = Unfitted
    /\ IdleRest

\* a request GET /api/stock/<code> whose fetch gave df
GetStockDetail ==
    /\ response = NoResult
    /\ \E features_raise \in BOOLEAN :
          \E r \in {get_stock_detail(df, cfg, features_raise)} :
             /\ response' = r.response
             /\ work' = r.engine.work /\ out' = r.engine.out /\ df' = r.engine.caller
    /\ UNCHANGED <<cfg, procVars, tableVars, disk, fetchVars, watchlist, now, req,
                   handled>>

NextDetail == GetStockDetail

SpecDetail == InitDetail /\ [][NextDetail]_vars

----------------------------------------------------------------------------
(* Properties of GET /api/stock/<code> (SpecDetail) *)

\* C27: when the fetch gave a non-empty table with trade_date, open, high,
\* low, close and vol (and the institutional features did not raise) the
\* request is answered with the success payload; the 500 answer 'Invalid
\* data format: missing trade_date' is given only when the fetched table had
\* no trade_date column
C27_DetailOfFetchedTable ==
    response # NoResult =>
       /\ (/\ ~IsEmpty(df)
           /\ FetchedColumns \subseteq Range(df.columns)
           /\ response.error # "extract_all_features")
             => response.status = 200
       /\ response.error = "Invalid data format: missing trade_date"
             => ~HasCol(df, "trade_date")

----------------------------------------------------------------------------
(* The watchlist of the web API: load_watchlist, save_watchlist,          *)
(* POST /api/watchlist and DELETE /api/watchlist/<code>                   *)

MaxRequests == 3

\* the codes of the requests; "" is a POST without a code
WatchCodes == {"600519", "000001"}

\* the lists of codes without a duplicate
RECURSIVE Orderings(_)
Orderings(S) ==
    IF S = {} THEN {<<>>}
    ELSE UNION {{<<c>> \o rest : rest \in Orderings(S \ {c})} : c \in S}

\* the files a start can find: none, or a list without duplicates
WatchlistFiles ==
    {NoFile} \cup
    UNION {{[status |-> "file", stocks |-> order, updated_at |-> 0] :
               order \in Orderings(S)} : S \in SUBSET WatchCodes}

\* load_watchlist(): the content of the file, or the empty default
load_watchlist(file) ==
    IF file # NoFile
    THEN [stocks |-> file.stocks, updated_at |-> file.updated_at]
    ELSE [stocks |-> <<>>, updated_at |-> 0]

\* save_watchlist(data): updated_at is set to the time of the save
save_watchlist(content, time) ==
    [status |-> "file", stocks |-> content.stocks, updated_at |-> time]

\* a membership test that never finds the code
InListNever(code, stocks) == FALSE

\* code in watchlist['stocks']
InList(code, stocks) == code \in Range(stocks)

\* list.remove(code): the first occurrence is taken out
RECURSIVE ListRemove(_, _)
ListRemove(stocks, code) ==
    IF stocks = <<>> THEN <<>>
    ELSE IF Head(stocks) = code THEN Tail(stocks)
    ELSE <<Head(stocks)>> \o ListRemove(Tail(stocks), code)

\* the request at place i leaves the requests in flight
Without(requests, i) ==
    SubSeq(requests, 1, i - 1) \o SubSeq(requests, i + 1, Len(requests))

\* add_to_watchlist and remove_from_watchlist after load_watchlist: the
\* local list is changed and saved when the membership test says so
ModifyAndSave(request, file, time) ==
    LET local == request.watchlist
        present == InList(request.code, local.stocks)
        changed == IF request.kind = "add" THEN ~present ELSE present
        stocks == IF ~changed THEN local.stocks
                  ELSE IF request.kind = "add" THEN Append(local.stocks, request.code)
                  ELSE ListRemove(local.stocks, request.code)
    IN [file |-> IF changed
                 THEN save_watchlist([local EXCEPT !.stocks = stocks], time + 1)
                 ELSE file,
        time |-> IF changed THEN time + 1 ELSE time,
        answer |-> [kind |-> request.kind, code |-> request.code, status |-> 200,
                    saved |-> changed, stocks |-> stocks]]

InitWatch ==
    /\ watchlist \in WatchlistFiles
    /\ now = 0
    /\ req = <<>>
    /\ handled = <<>>
    /\ response = NoResult
    /\ IdleFetch /\ disk = EmptyDisk
    /\ tbl = NoTable /\ ret = NoResult /\ scaler = Unfitted
    /\ IdleEngine

\* a request arrives while fewer than `workers` requests are in flight; the
\* requests in flight are for different codes
Receive(workers) ==
    /\ Len(req) < workers
    /\ Len(req) + Len(handled) < MaxRequests
    /\ \E kind \in {"add", "remove"}, code \in WatchCodes \cup {""} :
          /\ code = "" => kind = "add"
          /\ \A i \in 1..Len(req) : req[i].code # code
          /\ req' = Append(req, [kind |-> kind, code |-> code,
                                 position |-> "received",
                                 watchlist |-> load_watchlist(NoFile)])
    /\ UNCHANGED <<watchlist, now, handled, response, engineVars, procVars,
                   tableVars, disk, fetchVars>>

\* the server handles one request at a time
ReceiveAlone == Receive(1)

\* the server handles two requests at a time
ReceiveThreaded == Receive(2)

\* the start of a handler: a POST without a code is answered with 400,
\* every other request reads the file
LoadWatchlist ==
    /\ \E i \in 1..Len(req) :
          /\ req[i].position = "received"
          /\ IF req[i].code = ""
             THEN /\ handled' = Append(handled,
                                       [kind |-> req[i].kind, code |-> "",
                                        status |-> 400, saved |-> FALSE,
                                        stocks |-> <<>>])
                  /\ req' = Without(req, i)
             ELSE /\ req' = [req EXCEPT ![i].position = "loaded",
                                        ![i].watchlist = load_watchlist(watchlist)]
                  /\ handled' = handled
    /\ UNCHANGED <<watchlist, now, response, engineVars, procVars, tableVars,
                   disk, fetchVars>>

\* the rest of a handler: the membership test, the change, the save and
\* the answer
AnswerWatchlist ==
    /\ \E i \in 1..Len(req) :
          /\ req[i].position = "loaded"
          /\ \E r \in {ModifyAndSave(req[i], watchlist, now)} :
                /\ watchlist' = r.file
                /\ now' = r.time
                /\ handled' = Append(handled, r.answer)
          /\ req' = Without(req, i)
    /\ UNCHANGED <<response, engineVars, procVars, tableVars, disk, fetchVars>>

NextWatch == ReceiveAlone \/ LoadWatchlist \/ AnswerWatchlist

SpecWatch == InitWatch /\ [][NextWatch]_vars

NextThreaded == ReceiveThreaded \/ LoadWatchlist \/ AnswerWatchlist

SpecThreaded == InitWatch /\ [][NextThreaded]_vars

----------------------------------------------------------------------------
(* Properties of the watchlist (SpecWatch, SpecThreaded) *)

\* the stored list of codes
Stocks(file) == IF file = NoFile THEN <<>> ELSE file.stocks

NoDuplicate(stocks) ==
    \A i, j \in 1..Len(stocks) : stocks[i] = stocks[j] => i = j

\* the answered requests for a code, as places in the list of answers
AnswersFor(answers, code) ==
    {i \in 1..Len(answers) : answers[i].code = code /\ answers[i].status = 200}

\* a code with an answered request is stored exactly when the last of its
\* requests was an add
LastRequestDecides(file, answers) ==
    \A code \in WatchCodes :
       AnswersFor(answers, code) # {} =>
          LET last == CHOOSE i \in AnswersFor(answers, code) :
                         \A j \in AnswersFor(answers, code) : j <= i
          IN InList(code, Stocks(file)) <=> answers[last].kind = "add"

\* the list after an answered request: an absent code is added at the end,
\* a present one is taken out, every other code stays where it was
ExpectedStocks(stocks, answer) ==
    IF answer.status # 200 THEN stocks
    ELSE IF answer.kind = "add"
         THEN (IF answer.code \in Range(stocks) THEN stocks
               ELSE Append(stocks, answer.code))
    ELSE SelectSeq(stocks, LAMBDA c : c # answer.code)

\* C28: requests handled one after the other, from a list without
\* duplicates: the stored list never holds a code twice, it holds a code
\* exactly when the last request for the code was an add, the codes that
\* stay keep their order, and adding a code already present or removing an
\* absent one leaves the file as it was (stocks and updated_at)
C28_SequentialWatchlist ==
    [][/\ NoDuplicate(Stocks(watchlist'))
       /\ LastRequestDecides(watchlist', handled')
       /\ handled' # handled =>
             LET answer == handled'[Len(handled')]
             IN /\ Stocks(watchlist') = ExpectedStocks(Stocks(watchlist), answer)
                /\ Stocks(watchlist') = Stocks(watchlist) => watchlist' = watchlist]_vars

\* a code was added, an add of a code already present and a removal followed
C28_Witness ==
    /\ \E i, j \in 1..Len(handled) :
          /\ handled[i].kind = "add" /\ handled[i].status = 200 /\ ~handled[i].saved
          /\ handled[j].kind = "remove" /\ handled[j].saved
    /\ watchlist # NoFile /\ watchlist.updated_at > 0

\* C29: two requests for different codes handled at the same time, each
\* loading, changing and saving the list: the stored list reflects both
\* once they are answered, in every interleaving
C29_NoLostUpdate ==
    req = <<>> => LastRequestDecides(watchlist, handled)

----------------------------------------------------------------------------
(* Row counts of the engine (SpecEngine) *)

\* the call was made on a table that has the required columns
CalledOnComplete ==
    out # NoResult /\ MissingCols(Rename(df, column_mapping)) = <<>>

\* C30: for a table of n >= 0 rows with the required columns the call
\* returns a table of n rows whose columns, obv included, have n entries
\* each; a table without rows gives a result without rows and no error
C30_RowCountKept ==
    CalledOnComplete =>
       /\ out.status = "ok"
       /\ out.table.len = df.len
       /\ \A c \in Range(out.table.columns) : Len(out.table.data[c]) = df.len

====
